---- MODULE Spec2Model ----
(***************************************************************************)
(* Bot-aware SEO pipeline of the movie site: the Cloudflare Pages          *)
(* middleware (_middleware.ts) that classifies a request, consults the     *)
(* edge cache, resolves an SeoPayload (homepage settings or the            *)
(* seo-prerender edge function), rewrites the origin HTML and stores the   *)
(* result; and the seo-prerender function that builds a movie payload.     *)
(*                                                                         *)
(* Strings the code inspects (User-Agent, Accept, paths, content types,    *)
(* templates, payload fields) are sequences of one-character strings, so   *)
(* that includes / regex tests / replaceAll are computed, not assumed.     *)
(***************************************************************************)
EXTENDS Integers, Sequences, FiniteSets, TLC

VARIABLES
  reqs,        \* slot -> the request being handled there (or Idle)
  cache,       \* caches.default: URL path of a GET key -> stored Response (or NoResponse)
  cacheSrc,    \* history: which statement of onRequest stored cache[u]
  cacheAvail,  \* whether caches.default is defined in this runtime
  envOk,       \* whether env.SUPABASE_URL and env.SUPABASE_ANON_KEY are set
  active,      \* slots on which requests are accepted
  remaining    \* requests the environment may still send

\* The other programs of the repository, each with its own specification.
VARIABLES
  wk,          \* seo-worker.js: the request its fetch handler is serving
  call,        \* a call of a pure function: its arguments and its result
  apiCache,    \* ApiCache.cache: key -> entry (or NoEntry)
  apiOrder,    \* ApiCache.cache: its keys in the order a Map iterates them
  clock,       \* Date.now(), in ticks
  lastOp       \* the last ApiCache operation and what it returned

\* The state of the Pages middleware, and that of the other programs.
mwVars == <<reqs, cache, cacheSrc, cacheAvail, envOk, active, remaining>>
libVars == <<wk, call, apiCache, apiOrder, clock, lastOp>>

vars == <<reqs, cache, cacheSrc, cacheAvail, envOk, active, remaining,
          wk, call, apiCache, apiOrder, clock, lastOp>>

(***************************************************************************)
(* Bounds of the model.                                                    *)
(***************************************************************************)
MaxRequests == 2

(***************************************************************************)
(* Character strings.                                                      *)
(***************************************************************************)
UpperLetters ==
  <<"A", "B", "C", "D", "E", "F", "G", "H", "I", "J", "K", "L", "M", "N", "O", "P", "Q", "R", "S", "T", "U", "V", "W", "X", "Y", "Z">>
LowerLetters ==
  <<"a", "b", "c", "d", "e", "f", "g", "h", "i", "j", "k", "l", "m", "n", "o", "p", "q", "r", "s", "t", "u", "v", "w", "x", "y", "z">>

\* JavaScript's case folding for the ASCII letters (the /i flag of a RegExp).
LowerChar(c) ==
  IF \E i \in 1..26 : UpperLetters[i] = c
  THEN LowerLetters[CHOOSE i \in 1..26 : UpperLetters[i] = c]
  ELSE c

Lower(s) == [i \in 1..Len(s) |-> LowerChar(s[i])]

\* pat occurs in s at position i (1-based).
MatchAt(s, pat, i) ==
  /\ i >= 1
  /\ i + Len(pat) - 1 <= Len(s)
  /\ \A k \in 1..Len(pat) : s[i + k - 1] = pat[k]

\* String.prototype.includes
Includes(s, pat) == \E i \in 1..(Len(s) + 1) : MatchAt(s, pat, i)

\* String.prototype.startsWith
StartsWith(s, pat) == MatchAt(s, pat, 1)

\* String.prototype.endsWith
EndsWith(s, pat) == Len(pat) <= Len(s) /\ MatchAt(s, pat, Len(s) - Len(pat) + 1)

EmptyStr == << >>

\* The concatenation of pieces[lo], ..., pieces[hi] (by halves).
RECURSIVE Flatten(_, _, _)
Flatten(pieces, lo, hi) ==
  IF lo > hi THEN EmptyStr
  ELSE IF lo = hi THEN pieces[lo]
  ELSE LET mid == (lo + hi) \div 2
       IN  Flatten(pieces, lo, mid) \o Flatten(pieces, mid + 1, hi)

\* The starts of the matches of the literal pattern pat that a global
\* replace finds in s: left to right from position from, never overlapping.
RECURSIVE MatchStarts(_, _, _)
MatchStarts(s, pat, from) ==
  LET cands == {i \in from..(Len(s) - Len(pat) + 1) : MatchAt(s, pat, i)}
  IN  IF cands = {} \/ pat = EmptyStr THEN {}
      ELSE LET first == CHOOSE i \in cands : \A j \in cands : i <= j
           IN  {first} \cup MatchStarts(s, pat, first + Len(pat))

\* A character that cannot be written inside a string of TLA+ is written by
\* its code point: the element "U+0060" of a sequence is the one character
\* U+0060, the grave accent.
GraveAccent == "U+0060"

\* The characters that make a replacement pattern after a "$": "$$" is a
\* "$", "$&" the matched text, "$'" the text after the match, and "$" with a
\* grave accent the text before the match.
DollarSpecials == {"$", "&", "'", GraveAccent}

\* Whether a replacement pattern starts at position i of rep.  The scan is
\* left to right, so in a run of "$" the patterns start at every second one.
\* The patterns "$1".."$99" and "$<" need a capture group; the patterns of
\* this module have none and the characters stay.
DollarHead(rep, i) ==
  /\ rep[i] = "$"
  /\ i < Len(rep)
  /\ rep[i + 1] \in DollarSpecials
  /\ LET a == CHOOSE j \in 1..i :
                /\ \A k \in j..i : rep[k] = "$"
                /\ j = 1 \/ rep[j - 1] # "$"
     IN  (i - a) % 2 = 0

\* GetSubstitution of String.prototype.replace and replaceAll: the
\* replacement string rep for the match of length n at position i of s.
GetSubstitution(s, i, n, rep) ==
  LET pieces == [k \in 1..Len(rep) |->
                   IF DollarHead(rep, k)
                   THEN CASE rep[k + 1] = "$" -> <<"$">>
                          [] rep[k + 1] = "&" -> SubSeq(s, i, i + n - 1)
                          [] rep[k + 1] = "'" -> SubSeq(s, i + n, Len(s))
                          [] rep[k + 1] = GraveAccent -> SubSeq(s, 1, i - 1)
                   ELSE IF k > 1 /\ DollarHead(rep, k - 1) THEN EmptyStr
                   ELSE <<rep[k]>>]
  IN  IF \A k \in 1..Len(rep) : rep[k] # "$" THEN rep
      ELSE Flatten(pieces, 1, Len(rep))

\* s with every match of pat in text replaced by the substitution of rep;
\* text is s itself, or s in lower case for a case-insensitive pattern given
\* in lower case.
ReplaceMatches(s, text, pat, rep) ==
  LET starts == MatchStarts(text, pat, 1)
      pieces == [i \in 1..Len(s) |->
                   IF i \in starts THEN GetSubstitution(s, i, Len(pat), rep)
                   ELSE IF \E j \in starts : j < i /\ i < j + Len(pat) THEN EmptyStr
                   ELSE <<s[i]>>]
  IN  Flatten(pieces, 1, Len(s))

(***************************************************************************)
(* _middleware.ts: request classification.                                 *)
(***************************************************************************)
\* The alternatives of BOT_UA_REGEX (matched with the /i flag).
BOT_UA_REGEX ==
  { <<"g", "o", "o", "g", "l", "e", "b", "o", "t">>,
    <<"b", "i", "n", "g", "b", "o", "t">>,
    <<"y", "a", "n", "d", "e", "x">>,
    <<"d", "u", "c", "k", "d", "u", "c", "k", "b", "o", "t">>,
    <<"b", "a", "i", "d", "u", "s", "p", "i", "d", "e", "r">>,
    <<"s", "l", "u", "r", "p">>,
    <<"t", "w", "i", "t", "t", "e", "r", "b", "o", "t">>,
    <<"f", "a", "c", "e", "b", "o", "o", "k", "e", "x", "t", "e", "r", "n", "a", "l", "h", "i", "t">>,
    <<"f", "a", "c", "e", "b", "o", "t">>,
    <<"l", "i", "n", "k", "e", "d", "i", "n", "b", "o", "t">>,
    <<"t", "e", "l", "e", "g", "r", "a", "m", "b", "o", "t">>,
    <<"w", "h", "a", "t", "s", "a", "p", "p">>,
    <<"d", "i", "s", "c", "o", "r", "d", "b", "o", "t">>,
    <<"s", "l", "a", "c", "k", "b", "o", "t">>,
    <<"p", "i", "n", "t", "e", "r", "e", "s", "t">>,
    <<"e", "m", "b", "e", "d", "l", "y">>,
    <<"q", "u", "o", "r", "a", " ", "l", "i", "n", "k", " ", "p", "r", "e", "v", "i", "e", "w">>,
    <<"k", "a", "k", "a", "o", "t", "a", "l", "k">>,
    <<"n", "a", "v", "e", "r">>,
    <<"a", "p", "p", "l", "e", "b", "o", "t">> }

\* The extensions of the isAssetPath regular expression (matched with /i).
AssetExtensions ==
  { <<"j", "s">>,
    <<"c", "s", "s">>,
    <<"p", "n", "g">>,
    <<"j", "p", "g">>,
    <<"j", "p", "e", "g">>,
    <<"w", "e", "b", "p">>,
    <<"g", "i", "f">>,
    <<"s", "v", "g">>,
    <<"i", "c", "o">>,
    <<"w", "o", "f", "f">>,
    <<"w", "o", "f", "f", "2">>,
    <<"t", "t", "f">>,
    <<"e", "o", "t">>,
    <<"m", "a", "p">>,
    <<"j", "s", "o", "n">>,
    <<"t", "x", "t">>,
    <<"x", "m", "l">> }

S_prefetch == <<"p", "r", "e", "f", "e", "t", "c", "h">>
S_texthtml == <<"t", "e", "x", "t", "/", "h", "t", "m", "l">>
S_slash == <<"/">>
S_index == <<"/", "i", "n", "d", "e", "x", ".", "h", "t", "m", "l">>
S_phim == <<"/", "p", "h", "i", "m", "/">>

\* A slip: Sec-Purpose is looked at even when Purpose has a value.
isLikelyBotEitherHeader(req) ==
  \/ \E sig \in BOT_UA_REGEX : Includes(Lower(req.ua), sig)
  \/ Includes(Lower(req.purpose), S_prefetch)
  \/ Includes(Lower(req.secPurpose), S_prefetch)

\* A request: method and the headers and path the handler reads.  A header
\* that is missing is the empty string (headers.get(..) || "").
isLikelyBot(req) ==
  \/ \E sig \in BOT_UA_REGEX : Includes(Lower(req.ua), sig)
  \/ LET purpose == IF req.purpose # EmptyStr THEN req.purpose ELSE req.secPurpose
     IN  Includes(Lower(purpose), S_prefetch)

isHtmlRequest(req) == Includes(req.accept, S_texthtml)

\* A slip: the extension is compared without the /i flag.
isAssetPathCaseSensitive(pathname) ==
  \E ext \in AssetExtensions : EndsWith(pathname, <<".">> \o ext)

isAssetPath(pathname) ==
  \E ext \in AssetExtensions : EndsWith(Lower(pathname), <<".">> \o ext)

(***************************************************************************)
(* _middleware.ts: request routing.                                        *)
(***************************************************************************)
\* The path without its first n characters.
Drop(s, n) == SubSeq(s, n + 1, Len(s))

\* A slip: the route matched without the /i flag.
movieMatchCaseSensitive(path) ==
  IF ~StartsWith(path, S_phim) THEN EmptyStr
  ELSE LET rest == Drop(path, Len(S_phim))
           seg  == IF rest # EmptyStr /\ rest[Len(rest)] = "/"
                   THEN SubSeq(rest, 1, Len(rest) - 1)
                   ELSE rest
       IN  IF seg # EmptyStr /\ \A i \in 1..Len(seg) : seg[i] # "/"
           THEN seg
           ELSE EmptyStr

\* /^\/phim\/([^\/]+)(?:\/)?$/i : the captured slug, or EmptyStr when the
\* path does not match (a match always captures at least one character).
movieMatch(path) ==
  IF ~StartsWith(Lower(path), S_phim) THEN EmptyStr
  ELSE LET rest == Drop(path, Len(S_phim))
           seg  == IF rest # EmptyStr /\ rest[Len(rest)] = "/"
                   THEN SubSeq(rest, 1, Len(rest) - 1)
                   ELSE rest
       IN  IF seg # EmptyStr /\ \A i \in 1..Len(seg) : seg[i] # "/"
           THEN seg
           ELSE EmptyStr

\* routeToSeo: which resolver the path selects.
routeToSeo(path) ==
  IF path = S_slash \/ path = S_index THEN [kind |-> "home", slug |-> EmptyStr]
  ELSE IF movieMatch(path) # EmptyStr THEN [kind |-> "movie", slug |-> movieMatch(path)]
  ELSE [kind |-> "none", slug |-> EmptyStr]

(***************************************************************************)
(* seo-prerender/index.ts: the template engine.                            *)
(***************************************************************************)
\* The class \s of a JavaScript regular expression, which is also what
\* String.prototype.trim removes: WhiteSpace and LineTerminator of the
\* language, 25 characters.  Tab, line feed, vertical tab, form feed,
\* carriage return, space, no-break space, U+1680 and U+FEFF are written as
\* they are, the others by their code points.
WhiteSpace ==
  {"\t", "\n", "", "\f", "\r", " ", " ", " ", "﻿",
   "U+2000", "U+2001", "U+2002", "U+2003", "U+2004", "U+2005", "U+2006",
   "U+2007", "U+2008", "U+2009", "U+200A", "U+2028", "U+2029", "U+202F",
   "U+205F", "U+3000"}

IsSpace(c) == c \in WhiteSpace

\* s.replace(/\s+/g, " "): every run of white space becomes one space.
CollapseRuns(s) ==
  LET pieces == [i \in 1..Len(s) |->
                   IF ~IsSpace(s[i]) THEN <<s[i]>>
                   ELSE IF i > 1 /\ IsSpace(s[i - 1]) THEN EmptyStr
                   ELSE <<" ">>]
  IN  Flatten(pieces, 1, Len(s))

\* String.prototype.trim
Trim(s) ==
  IF \A i \in 1..Len(s) : IsSpace(s[i]) THEN EmptyStr
  ELSE LET first == CHOOSE i \in 1..Len(s) :
                      ~IsSpace(s[i]) /\ \A j \in 1..(i - 1) : IsSpace(s[j])
           last  == CHOOSE i \in 1..Len(s) :
                      ~IsSpace(s[i]) /\ \A j \in (i + 1)..Len(s) : IsSpace(s[j])
       IN  SubSeq(s, first, last)

\* s.replace(/\s+/g, " ").trim()
CollapseSpaces(s) == Trim(CollapseRuns(s))

\* s.replace(/<[^>]*>/g, ""): position i is inside a match when a "<" at or
\* before it has no ">" between itself and i and has a ">" after it, at i or
\* later; a "<" with no ">" after it stays.
InTag(s, i) ==
  \E j \in 1..i :
    /\ s[j] = "<"
    /\ \A k \in j..(i - 1) : s[k] # ">"
    /\ \E k \in i..Len(s) : k > j /\ s[k] = ">"

StripTags(s) ==
  LET pieces == [i \in 1..Len(s) |-> IF InTag(s, i) THEN EmptyStr ELSE <<s[i]>>]
  IN  Flatten(pieces, 1, Len(s))

stripHtml(html) == CollapseSpaces(StripTags(html))

S_ellipsis == <<".", ".", ".">>

\* String.prototype.substring(0, n): a negative n counts as 0.
Substring0(s, n) ==
  IF n <= 0 THEN EmptyStr ELSE IF n >= Len(s) THEN s ELSE SubSeq(s, 1, n)

\* A slip: the ellipsis is appended to a text that needed no cut, too.
truncateTextAlwaysEllipsis(text, maxLength) ==
  IF text = EmptyStr THEN EmptyStr
  ELSE LET stripped == stripHtml(text)
       IN  IF Len(stripped) <= maxLength THEN stripped \o S_ellipsis
           ELSE Substring0(stripped, maxLength - 3) \o S_ellipsis

\* A slip: the cut is made at maxLength, leaving no room for the ellipsis.
truncateTextCutAtMax(text, maxLength) ==
  IF text = EmptyStr THEN EmptyStr
  ELSE LET stripped == stripHtml(text)
       IN  IF Len(stripped) <= maxLength THEN stripped
           ELSE Substring0(stripped, maxLength) \o S_ellipsis

truncateText(text, maxLength) ==
  IF text = EmptyStr THEN EmptyStr
  ELSE LET stripped == stripHtml(text)
       IN  IF Len(stripped) <= maxLength THEN stripped
           ELSE Substring0(stripped, maxLength - 3) \o S_ellipsis

\* s.replace(/pat/gi, rep) for a literal pattern pat given in lower case.
ReplaceAllCI(s, pat, rep) == ReplaceMatches(s, Lower(s), pat, rep)

T_sitename == <<"s", "i", "t", "e", "n", "a", "m", "e">>
T_phim == <<"p", "h", "i", "m">>
T_phimgoc == <<"p", "h", "i", "m", "g", "o", "c">>
T_theloai == <<"t", "h", "e", "l", "o", "a", "i">>
T_quocgia == <<"q", "u", "o", "c", "g", "i", "a">>
T_nam == <<"n", "a", "m">>
T_tap == <<"t", "a", "p">>
T_chatluong == <<"c", "h", "a", "t", "l", "u", "o", "n", "g">>
T_ngonngu == <<"n", "g", "o", "n", "n", "g", "u">>
T_noidung == <<"n", "o", "i", "d", "u", "n", "g">>
T_dienvien == <<"d", "i", "e", "n", "v", "i", "e", "n">>
T_daodien == <<"d", "a", "o", "d", "i", "e", "n">>

\* The characters of a token name given as a key of the variables record.
TokenKey(k) ==
  CASE k = "sitename" -> T_sitename
    [] k = "phim" -> T_phim
    [] k = "phimgoc" -> T_phimgoc
    [] k = "theloai" -> T_theloai
    [] k = "quocgia" -> T_quocgia
    [] k = "nam" -> T_nam
    [] k = "tap" -> T_tap
    [] k = "chatluong" -> T_chatluong
    [] k = "ngonngu" -> T_ngonngu
    [] k = "noidung" -> T_noidung
    [] k = "dienvien" -> T_dienvien
    [] k = "daodien" -> T_daodien

\* The tokens of replaceSeoVariables in the order the function replaces them;
\* %noidung% is the only one whose value goes through stripHtml.
SeoTokens == <<T_sitename, T_phim, T_phimgoc, T_theloai, T_quocgia, T_nam, T_tap, T_chatluong, T_ngonngu, T_noidung, T_dienvien, T_daodien>>

TokenPattern(name) == <<"%">> \o name \o <<"%">>

\* A field of a Record<string, string>: undefined (falsy) when the key is absent.
Get(rec, key) == IF key \in DOMAIN rec THEN rec[key] ELSE EmptyStr

\* a || b on strings
Or(a, b) == IF a # EmptyStr THEN a ELSE b

\* variables.nam is a number or a string (string | number | undefined):
\* JsNumber(n) stands for the number n, JsString(s) for the string s.
JsNumber(n) == [number |-> TRUE, n |-> n, s |-> EmptyStr]
JsString(s) == [number |-> FALSE, n |-> 0, s |-> s]

DecimalDigits == <<"0", "1", "2", "3", "4", "5", "6", "7", "8", "9">>

\* String(n) for a natural number n.
RECURSIVE NumberToString(_)
NumberToString(n) ==
  IF n < 10 THEN <<DecimalDigits[n + 1]>>
  ELSE NumberToString(n \div 10) \o <<DecimalDigits[(n % 10) + 1]>>

\* String(v) for a number or a string.
StringOf(v) == IF v.number THEN NumberToString(v.n) ELSE v.s

\* Whether v is truthy: every number but 0, every string but "".
IsTruthy(v) == IF v.number THEN v.n # 0 ELSE v.s # EmptyStr

\* The replacement value of a token.  Line 92: %nam% is String(variables.nam)
\* when variables.nam is truthy, so the number 0 gives "".  Line 96: the
\* value of %noidung% goes through stripHtml.
TokenValue(name, variables) ==
  IF name = T_noidung THEN stripHtml(Get(variables, "noidung"))
  ELSE IF name = T_nam
  THEN IF "nam" \in DOMAIN variables /\ IsTruthy(variables.nam)
       THEN StringOf(variables.nam) ELSE EmptyStr
  ELSE Get(variables, CHOOSE k \in {"sitename", "phim", "phimgoc", "theloai", "quocgia", "nam", "tap", "chatluong", "ngonngu", "noidung", "dienvien", "daodien"} : TokenKey(k) = name)

RECURSIVE ReplaceTokens(_, _, _)
ReplaceTokens(s, variables, k) ==
  IF k > Len(SeoTokens) THEN s
  ELSE ReplaceTokens(
         ReplaceAllCI(s, TokenPattern(SeoTokens[k]), TokenValue(SeoTokens[k], variables)),
         variables, k + 1)

replaceSeoVariables(template, variables) ==
  IF template = EmptyStr THEN EmptyStr
  ELSE CollapseSpaces(ReplaceTokens(template, variables, 1))

(***************************************************************************)
(* The content store and the settings tables (external collaborators).     *)
(***************************************************************************)
S_ab == <<"a", "b">>
S_zz == <<"z", "z">>
S_xs == <<"x", "s">>

\* A movie whose name holds markup and whose content holds a double quote.
HostileName == <<"<", "s", "c", "r", "i", "p", "t", ">", "a", "l", "e", "r", "t", "(", "1", ")", "<", "/", "s", "c", "r", "i", "p", "t", ">">>

HostileMovie ==
  [name            |-> HostileName,
   origin_name     |-> <<"X">>,
   category        |-> << <<"A", "c", "t">> >>,
   country         |-> << <<"V", "N">> >>,
   year            |-> 2024,
   episode_current |-> <<"T", "1">>,
   quality         |-> <<"H", "D">>,
   lang            |-> <<"V", "i">>,
   content         |-> <<"a", "\"", "b">>,
   actor           |-> << >>,
   director        |-> << >>,
   thumb_url       |-> EmptyStr,
   poster_url      |-> <<"h", "t", "t", "p", ":", "/", "/", "i", "/", "p">>]

\* phimapi.com: the movies it knows, by slug.  year is a number.
Movies ==
  [slug \in {S_ab, S_xs} |->
     IF slug = S_xs THEN HostileMovie ELSE
     [name            |-> <<"A", "b">>,
      origin_name     |-> <<"A", "b", " ", "G", "o", "c">>,
      category        |-> << <<"A", "c", "t">> >>,
      country         |-> << <<"V", "N">> >>,
      year            |-> 2024,
      episode_current |-> <<"T", "8">>,
      quality         |-> <<"H", "D">>,
      lang            |-> <<"V", "i">>,
      content         |-> <<"<", "p", ">", "H", "a", "y", "<", "/", "p", ">">>,
      actor           |-> << <<"A", "n">> >>,
      director        |-> << <<"B", "o">> >>,
      thumb_url       |-> <<"t", ".", "j", "p", "g">>,
      poster_url      |-> EmptyStr]]

\* The rows of the seo_settings and site_settings tables.
SeoSettingsRows ==
  [k \in {"homepage_title", "site_description", "movie_seo_title"} |->
     IF k = "homepage_title" THEN <<"A", "n", "i", "m", "e", " ", "%", "s", "i", "t", "e", "n", "a", "m", "e", "%">>
     ELSE IF k = "movie_seo_title" THEN <<"%", "p", "h", "i", "m", "%", " ", "|", " ", "%", "s", "i", "t", "e", "n", "a", "m", "e", "%">>
     ELSE <<"S", "d">>]

SiteSettingsRows ==
  [k \in {"site_name", "site_url"} |->
     IF k = "site_name" THEN <<"A", "L">> ELSE <<"h", "t", "t", "p", "s", ":", "/", "/", "a", "l", ".", "t", "v">>]

NoRows == [k \in {} |-> EmptyStr]

\* The origin ("protocol//host") of every request URL of the model.
ReqOrigin == <<"h", "t", "t", "p", "s", ":", "/", "/", "a", "l", ".", "t", "v">>

(***************************************************************************)
(* seo-prerender/index.ts: the edge function.                              *)
(***************************************************************************)
NullMovie == [isNull |-> TRUE]

\* fetchMovieData: the movie of the slug, or null when phimapi.com does not
\* answer with one (unknown slug, non-2xx, network error: all caught).
fetchMovieData(slug, apiUp) ==
  IF apiUp /\ slug \in DOMAIN Movies THEN Movies[slug] ELSE NullMovie

\* getSiteSettings / getSeoSettings: the rows, or {} on any failure.
getSiteSettings(up) == IF up THEN SiteSettingsRows ELSE NoRows

getSeoSettings(up) == IF up THEN SeoSettingsRows ELSE NoRows

S_http == <<"h", "t", "t", "p">>
S_phimimg == <<"h", "t", "t", "p", "s", ":", "/", "/", "p", "h", "i", "m", "i", "m", "g", ".", "c", "o", "m", "/">>

getImageUrl(imageUrl) ==
  IF imageUrl = EmptyStr THEN EmptyStr
  ELSE IF StartsWith(imageUrl, S_http) THEN imageUrl
  ELSE S_phimimg \o imageUrl

\* Array.prototype.join
RECURSIVE Join(_, _)
Join(items, sep) ==
  IF Len(items) = 0 THEN EmptyStr
  ELSE IF Len(items) = 1 THEN items[1]
  ELSE items[1] \o sep \o Join(Tail(items), sep)

S_commaSpace == <<",", " ">>
S_PhimHD == <<"P", "h", "i", "m", "H", "D">>
S_dashSep == <<" ", "-", " ">>
S_videoMovie == <<"v", "i", "d", "e", "o", ".", "m", "o", "v", "i", "e">>
S_website == <<"w", "e", "b", "s", "i", "t", "e">>

DefaultMovieTitleTemplate == <<"%", "p", "h", "i", "m", "%", " ", "%", "t", "a", "p", "%", " ", "%", "c", "h", "a", "t", "l", "u", "o", "n", "g", "%">>
DefaultMovieDescTemplate == <<"X", "e", "m", " ", "p", "h", "i", "m", " ", "%", "p", "h", "i", "m", "%", " ", "%", "t", "a", "p", "%", " ", "%", "c", "h", "a", "t", "l", "u", "o", "n", "g", "%", " ", "v", "i", "e", "t", "s", "u", "b", ",", " ", "t", "h", "u", "y", "ế", "t", " ", "m", "i", "n", "h", ".", " ", "%", "n", "o", "i", "d", "u", "n", "g", "%">>
DefaultMovieKeywordsTemplate == <<"%", "p", "h", "i", "m", "%", ",", " ", "%", "p", "h", "i", "m", "g", "o", "c", "%", ",", " ", "%", "t", "h", "e", "l", "o", "a", "i", "%", ",", " ", "x", "e", "m", " ", "p", "h", "i", "m", " ", "%", "p", "h", "i", "m", "%">>

DescMaxLength == 160
MaxActors == 5

\* A slip: the site name is appended whether or not the title holds it.
AppendSiteNameAlways(title, siteName) == title \o S_dashSep \o siteName

\* The title rule of the handler (lines 172-175) and of getHomepageSeo (line 100).
AppendSiteName(title, siteName) ==
  IF Includes(title, siteName) THEN title ELSE title \o S_dashSep \o siteName

NullSeo == [isNull |-> TRUE]

\* Line 148 (and line 98 of _middleware.ts): the site name.
siteNameOf(siteSettings, seoSettings) ==
  Or(Get(seoSettings, "site_name"), Or(Get(siteSettings, "site_name"), S_PhimHD))

\* Lines 152-165: the variables of the templates.
seoVariablesOf(movie, siteName) ==
  [sitename  |-> siteName,
   phim      |-> movie.name,
   phimgoc   |-> movie.origin_name,
   theloai   |-> Join(movie.category, S_commaSpace),
   quocgia   |-> Join(movie.country, S_commaSpace),
   nam       |-> JsNumber(movie.year),
   tap       |-> movie.episode_current,
   chatluong |-> movie.quality,
   ngonngu   |-> movie.lang,
   noidung   |-> movie.content,
   dienvien  |-> Join(SubSeq(movie.actor, 1,
                             IF Len(movie.actor) < MaxActors
                             THEN Len(movie.actor) ELSE MaxActors),
                      S_commaSpace),
   daodien   |-> Join(movie.director, S_commaSpace)]

\* Line 168: the title template.
titleTemplateOf(seoSettings) ==
  Or(Get(seoSettings, "movie_seo_title"),
     Or(Get(seoSettings, "movie_title"), DefaultMovieTitleTemplate))

\* The body of the serve handler after the three parallel fetches: the
\* HTTP status and, for 200, the JSON payload.
serve(slug, movie, siteSettings, seoSettings) ==
  IF slug = EmptyStr THEN [status |-> 400, payload |-> NullSeo]
  ELSE IF movie = NullMovie THEN [status |-> 404, payload |-> NullSeo]
  ELSE
    LET siteName == siteNameOf(siteSettings, seoSettings)
        siteUrl  == Get(siteSettings, "site_url")
        seoVariables == seoVariablesOf(movie, siteName)
        titleTemplate == titleTemplateOf(seoSettings)
        descTemplate ==
          Or(Get(seoSettings, "movie_seo_description"),
             Or(Get(seoSettings, "movie_description"), DefaultMovieDescTemplate))
        keywordsTemplate ==
          Or(Get(seoSettings, "movie_seo_keywords"), DefaultMovieKeywordsTemplate)
    IN  [status  |-> 200,
         payload |->
           [isNull       |-> FALSE,
            title        |-> AppendSiteName(replaceSeoVariables(titleTemplate, seoVariables),
                                            siteName),
            description  |-> truncateText(replaceSeoVariables(descTemplate, seoVariables),
                                          DescMaxLength),
            keywords     |-> replaceSeoVariables(keywordsTemplate, seoVariables),
            image        |-> getImageUrl(Or(movie.thumb_url, movie.poster_url)),
            canonicalUrl |-> siteUrl \o S_phim \o slug,
            siteName     |-> siteName,
            type         |-> S_videoMovie]]

(***************************************************************************)
(* _middleware.ts: the resolvers.                                          *)
(***************************************************************************)
\* fetchKvTable after its fetch answered: {} for a non-2xx answer, else the
\* rows that have a key and a value.
fetchKvTable(ok, rows) == IF ok THEN rows ELSE NoRows

DefaultHomeTitle == <<"X", "e", "m", " ", "p", "h", "i", "m", " ", "o", "n", "l", "i", "n", "e", " ", "m", "i", "ễ", "n", " ", "p", "h", "í", " ", "c", "h", "ấ", "t", " ", "l", "ư", "ợ", "n", "g", " ", "c", "a", "o">>
DefaultHomeDescPrefix == <<"X", "e", "m", " ", "p", "h", "i", "m", " ", "o", "n", "l", "i", "n", "e", " ", "c", "h", "ấ", "t", " ", "l", "ư", "ợ", "n", "g", " ", "c", "a", "o", " ", "t", "ạ", "i", " ">>
DefaultImage == <<"/", "i", "c", "o", "n", "-", "5", "1", "2", ".", "s", "v", "g">>

getHomepageSeo(path, seo, site) ==
  LET siteName  == Or(Get(seo, "site_name"), Or(Get(site, "site_name"), S_PhimHD))
      titleBase == Or(Get(seo, "homepage_title"), DefaultHomeTitle)
  IN  [isNull       |-> FALSE,
       title        |-> AppendSiteName(titleBase, siteName),
       description  |-> Or(Get(seo, "homepage_description"),
                           Or(Get(seo, "site_description"),
                              DefaultHomeDescPrefix \o siteName)),
       keywords     |-> Get(seo, "site_keywords"),
       image        |-> Or(Get(seo, "og_image"), DefaultImage),
       canonicalUrl |-> ReqOrigin \o path,
       siteName     |-> siteName,
       type         |-> S_website]

\* getMovieSeo after its fetch answered with a parseable body: null for a
\* non-2xx answer, else the payload with the canonical fallback applied.
getMovieSeo(slug, res) ==
  IF res.status < 200 \/ res.status > 299 THEN NullSeo
  ELSE IF res.payload.canonicalUrl = EmptyStr
       THEN [res.payload EXCEPT !.canonicalUrl = ReqOrigin \o S_phim \o slug]
       ELSE res.payload

(***************************************************************************)
(* _middleware.ts: the HTML rewrite.                                       *)
(***************************************************************************)
\* s.replaceAll(pat, rep) for a literal pattern.
replaceAll(s, pat, rep) == ReplaceMatches(s, s, pat, rep)

escapeHtmlAttr(value) ==
  replaceAll(replaceAll(replaceAll(replaceAll(value,
    <<"&">>, <<"&", "a", "m", "p", ";">>), <<"\"">>, <<"&", "q", "u", "o", "t", ";">>), <<"<">>, <<"&", "l", "t", ";">>), <<">">>, <<"&", "g", "t", ";">>)

\* An element the document does not have: no selector matches it.
Absent == <<"<absent>">>

\* TitleRewriter.element: setInnerContent(value) on a matched <title>.
TitleRewriter(value, cur) == IF cur = Absent THEN Absent ELSE value

\* MetaRewriter.element: content is set unless the value is empty.
MetaRewriter(value, cur) ==
  IF cur = Absent THEN Absent ELSE IF value = EmptyStr THEN cur ELSE value

\* LinkHrefRewriter.element: href is set unless it is empty.
LinkHrefRewriter(href, cur) ==
  IF cur = Absent THEN Absent ELSE IF href = EmptyStr THEN cur ELSE href

S_canonicalOpen == <<"<", "l", "i", "n", "k", " ", "r", "e", "l", "=", "\"", "c", "a", "n", "o", "n", "i", "c", "a", "l", "\"", " ", "h", "r", "e", "f", "=", "\"">>
S_keywordsOpen == <<"<", "m", "e", "t", "a", " ", "n", "a", "m", "e", "=", "\"", "k", "e", "y", "w", "o", "r", "d", "s", "\"", " ", "c", "o", "n", "t", "e", "n", "t", "=", "\"">>
S_tagClose == <<"\"", " ", "/", ">">>

\* HeadInjector.element: the markup appended at the end of <head>.
HeadInjector(seo) ==
  LET canonical == IF seo.canonicalUrl # EmptyStr
                   THEN S_canonicalOpen \o escapeHtmlAttr(seo.canonicalUrl) \o S_tagClose
                   ELSE EmptyStr
      keywords  == IF seo.keywords # EmptyStr
                   THEN S_keywordsOpen \o escapeHtmlAttr(seo.keywords) \o S_tagClose
                   ELSE EmptyStr
  IN  canonical \o keywords

\* The absolute image URL of buildSeoResponse (lines 217-221).
imageUrlOf(seo) ==
  IF seo.image = EmptyStr THEN EmptyStr
  ELSE IF StartsWith(seo.image, S_http) THEN seo.image
  ELSE ReqOrigin \o (IF StartsWith(seo.image, S_slash) THEN EmptyStr ELSE S_slash) \o seo.image

\* rewriter.transform(res): the handlers of lines 223-237 applied to the
\* elements of the document; everything else is passed through.
transform(doc, seo, path) ==
  [kind          |-> doc.kind,
   hasHead       |-> doc.hasHead,
   headAppend    |-> IF doc.hasHead THEN doc.headAppend \o HeadInjector(seo)
                     ELSE doc.headAppend,
   title         |-> TitleRewriter(seo.title, doc.title),
   description   |-> MetaRewriter(seo.description, doc.description),
   keywords      |-> MetaRewriter(seo.keywords, doc.keywords),
   ogTitle       |-> MetaRewriter(seo.title, doc.ogTitle),
   ogDescription |-> MetaRewriter(seo.description, doc.ogDescription),
   ogSiteName    |-> MetaRewriter(seo.siteName, doc.ogSiteName),
   ogType        |-> MetaRewriter(Or(seo.type, S_website), doc.ogType),
   ogUrl         |-> MetaRewriter(Or(seo.canonicalUrl, ReqOrigin \o path), doc.ogUrl),
   ogImage       |-> MetaRewriter(imageUrlOf(seo), doc.ogImage),
   twTitle       |-> MetaRewriter(seo.title, doc.twTitle),
   twDescription |-> MetaRewriter(seo.description, doc.twDescription),
   twImage       |-> MetaRewriter(imageUrlOf(seo), doc.twImage),
   twCard        |-> doc.twCard,
   icon          |-> LinkHrefRewriter(seo.image, doc.icon)]

\* Headers: header name (lower case) -> value.
HeaderGet(headers, name) == IF name \in DOMAIN headers THEN headers[name] ELSE EmptyStr

HeaderSet(headers, name, value) ==
  [h \in DOMAIN headers \cup {name} |-> IF h = name THEN value ELSE headers[h]]

S_cacheControl == <<"p", "u", "b", "l", "i", "c", ",", " ", "m", "a", "x", "-", "a", "g", "e", "=", "3", "0", "0">>
S_varyUA == <<"U", "s", "e", "r", "-", "A", "g", "e", "n", "t">>

\* Lines 211-212: whether buildSeoResponse goes on to rewrite res.
isHtmlResponse(res) == Includes(HeaderGet(res.headers, "content-type"), S_texthtml)

\* A slip: the status of the rewritten response is not taken from the origin.
buildSeoResponseStatus200(res, seo, path) ==
  IF ~isHtmlResponse(res) THEN res
  ELSE [status  |-> 200,
        headers |-> HeaderSet(HeaderSet(res.headers, "cache-control", S_cacheControl),
                              "vary", S_varyUA),
        body    |-> transform(res.body, seo, path)]

\* A slip: the caching headers are set before the content type is looked at.
buildSeoResponseAlwaysHeaders(res, seo, path) ==
  LET headers == HeaderSet(HeaderSet(res.headers, "cache-control", S_cacheControl),
                           "vary", S_varyUA)
  IN  IF ~isHtmlResponse(res) THEN [res EXCEPT !.headers = headers]
      ELSE [status  |-> res.status,
            headers |-> headers,
            body    |-> transform(res.body, seo, path)]

\* buildSeoResponse once context.next() has answered with res.
buildSeoResponse(res, seo, path) ==
  IF ~isHtmlResponse(res) THEN res
  ELSE [status  |-> res.status,
        headers |-> HeaderSet(HeaderSet(res.headers, "cache-control", S_cacheControl),
                              "vary", S_varyUA),
        body    |-> transform(res.body, seo, path)]

(***************************************************************************)
(* The origin (context.next()): the responses it may give.                 *)
(***************************************************************************)
S_o == <<"o">>

\* The SPA shell with every element the rewriter selects.
DocFull ==
  [kind |-> "html", hasHead |-> TRUE, headAppend |-> EmptyStr,
   title |-> <<"A", "p", "p">>, description |-> S_o, keywords |-> S_o,
   ogTitle |-> S_o, ogDescription |-> S_o, ogSiteName |-> S_o, ogType |-> S_website,
   ogUrl |-> S_o, ogImage |-> S_o, twTitle |-> S_o, twDescription |-> S_o,
   twImage |-> S_o, twCard |-> <<"s", "u", "m", "m", "a", "r", "y">>, icon |-> <<"/", "f", "a", "v", "i", "c", "o", "n", ".", "i", "c", "o">>]

\* An HTML page with a head and a title only.
DocBare ==
  [kind |-> "html", hasHead |-> TRUE, headAppend |-> EmptyStr,
   title |-> <<"4", "0", "4">>, description |-> Absent, keywords |-> Absent,
   ogTitle |-> Absent, ogDescription |-> Absent, ogSiteName |-> Absent, ogType |-> Absent,
   ogUrl |-> Absent, ogImage |-> Absent, twTitle |-> Absent, twDescription |-> Absent,
   twImage |-> Absent, twCard |-> Absent, icon |-> Absent]

DocJson == [kind |-> "json"]

OriginHtml200 ==
  [status  |-> 200,
   headers |-> [h \in {"content-type", "cache-control", "etag"} |->
                  CASE h = "content-type" -> <<"t", "e", "x", "t", "/", "h", "t", "m", "l", ";", " ", "c", "h", "a", "r", "s", "e", "t", "=", "u", "t", "f", "-", "8">>
                    [] h = "cache-control" -> <<"n", "o", "-", "c", "a", "c", "h", "e">>
                    [] h = "etag" -> <<"W", "/", "1">>],
   body    |-> DocFull]

OriginHtml404 ==
  [status  |-> 404,
   headers |-> [h \in {"content-type", "vary"} |->
                  IF h = "content-type" THEN S_texthtml ELSE <<"A", "c", "c", "e", "p", "t", "-", "E", "n", "c", "o", "d", "i", "n", "g">>],
   body    |-> DocBare]

OriginJson200 ==
  [status  |-> 200,
   headers |-> [h \in {"content-type"} |-> <<"a", "p", "p", "l", "i", "c", "a", "t", "i", "o", "n", "/", "j", "s", "o", "n">>],
   body    |-> DocJson]

OriginResponses == {OriginHtml200, OriginHtml404, OriginJson200}

NoResponse == [status |-> 0]

(***************************************************************************)
(* Requests.                                                               *)
(***************************************************************************)
UA_Googlebot == <<"G", "o", "o", "g", "l", "e", "b", "o", "t", "/", "2", ".", "1">>
UA_Browser == <<"M", "o", "z", "i", "l", "l", "a", "/", "5", ".", "0">>
Accept_Html == <<"t", "e", "x", "t", "/", "h", "t", "m", "l", ",", "*", "/", "*">>
Accept_Any == <<"*", "/", "*">>
P_root == S_slash
P_movieKnown == S_phim \o S_ab
P_movieUnknown == S_phim \o S_zz
P_asset == <<"/", "a", "p", "p", ".", "j", "s">>
P_movieAsset == S_phim \o <<"a", "b", ".", "J", "S">>

Methods == {"GET", "HEAD", "POST"}
Accepts == {Accept_Html, Accept_Any}
UserAgents == {UA_Googlebot, UA_Browser}
Purposes == {EmptyStr, S_prefetch}
Paths == {P_root, P_movieKnown, P_movieUnknown, P_asset, P_movieAsset}

\* The requests the environment sends: every combination of the values
\* above, and a browser prefetch announced by Sec-Purpose alone.
Requests ==
  [method : Methods, accept : Accepts, ua : UserAgents, purpose : Purposes,
   secPurpose : {EmptyStr}, path : Paths]
  \cup {[method |-> "GET", accept |-> Accept_Html, ua |-> UA_Browser,
         purpose |-> EmptyStr, secPurpose |-> S_prefetch, path |-> P_root]}

NoRequest ==
  [method |-> "", accept |-> EmptyStr, ua |-> EmptyStr, purpose |-> EmptyStr,
   secPurpose |-> EmptyStr, path |-> EmptyStr]

Slots == {1, 2}

\* A slip: the gate without the bot check of lines 266-268.
entersPipelineNoBotCheck(req) ==
  /\ req.method = "GET" \/ req.method = "HEAD"
  /\ isHtmlRequest(req)
  /\ ~isAssetPath(req.path)

\* Lines 260-268: TRUE when the request goes on to the SEO pipeline.
entersPipeline(req) ==
  /\ req.method = "GET" \/ req.method = "HEAD"
  /\ isHtmlRequest(req)
  /\ ~isAssetPath(req.path)
  /\ isLikelyBot(req)

(***************************************************************************)
(* The pure functions above, tabulated over the values of the model.       *)
(***************************************************************************)
\* f as an enumerated function: TLC then evaluates each entry once instead
\* of at every application.
Tabulate(f) == f @@ [x \in {} |-> x]

\* Whether a request passes lines 260-268.
EntersTable == Tabulate([req \in Requests |-> entersPipeline(req)])

RouteTable == Tabulate([p \in Paths |-> routeToSeo(p)])

\* The answer of the seo-prerender function for a slug, given which of its
\* three fetches (phimapi.com, site_settings, seo_settings) succeeded.
ServeTable ==
  Tabulate([slug \in {RouteTable[p].slug : p \in Paths}, apiUp \in BOOLEAN,
            siteUp \in BOOLEAN, seoUp \in BOOLEAN |->
              serve(slug, fetchMovieData(slug, apiUp),
                    getSiteSettings(siteUp), getSeoSettings(seoUp))])

MovieSeoTable ==
  Tabulate([slug \in {RouteTable[p].slug : p \in Paths}, apiUp \in BOOLEAN,
            siteUp \in BOOLEAN, seoUp \in BOOLEAN |->
              getMovieSeo(slug, ServeTable[slug, apiUp, siteUp, seoUp])])

\* The homepage payload, given which of the two settings fetches answered 2xx.
HomeSeoTable ==
  Tabulate([p \in Paths, seoOk \in BOOLEAN, siteOk \in BOOLEAN |->
              getHomepageSeo(p, fetchKvTable(seoOk, SeoSettingsRows),
                                fetchKvTable(siteOk, SiteSettingsRows))])

\* Every payload a resolver can produce.
Payloads ==
  ({MovieSeoTable[x] : x \in DOMAIN MovieSeoTable} \ {NullSeo})
  \cup {HomeSeoTable[x] : x \in DOMAIN HomeSeoTable}

HtmlTable == Tabulate([o \in OriginResponses |-> isHtmlResponse(o)])

\* Whether the User-Agent holds a crawler signature of BOT_UA_REGEX.
CrawlerTable ==
  Tabulate([ua \in UserAgents |-> \E sig \in BOT_UA_REGEX : Includes(Lower(ua), sig)])

BotTable == Tabulate([req \in Requests |-> isLikelyBot(req)])

BuildTable ==
  Tabulate([o \in OriginResponses, seo \in Payloads, p \in Paths |->
              buildSeoResponse(o, seo, p)])

(***************************************************************************)
(* seo-worker.js: the SEO worker, and the state at rest of the programs    *)
(* that have a specification of their own.                                 *)
(***************************************************************************)
\* Line 8: the signatures the worker looks for, with String.prototype.includes.
WorkerSignatures ==
  { <<"f", "a", "c", "e", "b", "o", "o", "k", "e", "x", "t", "e", "r", "n", "a", "l", "h", "i", "t">>,
    <<"t", "w", "i", "t", "t", "e", "r", "b", "o", "t">>,
    <<"g", "o", "o", "g", "l", "e", "b", "o", "t">> }

\* Line 8: TRUE when the worker does not forward the request at once.
workerIsBot(ua) == \E sig \in WorkerSignatures : Includes(ua, sig)

WorkerDefaultTitle == <<"X", "e", "m", " ", "p", "h", "i", "m", " ", "o", "n", "l", "i", "n", "e", " ", "-", " ", "A", "n", "i", "m", "e", "L", "o", "L">>
WorkerDefaultDesc == <<"X", "e", "m", " ", "p", "h", "i", "m", " ", "o", "n", "l", "i", "n", "e", " ", "c", "h", "ấ", "t", " ", "l", "ư", "ợ", "n", "g", " ", "c", "a", "o">>
S_NA == <<"N", "/", "A">>

\* The pieces of the template literal of lines 35-56, between its holes.
W_0 == <<"\n", "<", "!", "D", "O", "C", "T", "Y", "P", "E", " ", "h", "t", "m", "l", ">", "\n", "<", "h", "t", "m", "l", " ", "l", "a", "n", "g", "=", "\"", "v", "i", "\"", ">", "\n", "<", "h", "e", "a", "d", ">", "\n", " ", " ", "<", "m", "e", "t", "a", " ", "c", "h", "a", "r", "s", "e", "t", "=", "\"", "U", "T", "F", "-", "8", "\"", ">", "\n", " ", " ", "<", "m", "e", "t", "a", " ", "n", "a", "m", "e", "=", "\"", "v", "i", "e", "w", "p", "o", "r", "t", "\"", " ", "c", "o", "n", "t", "e", "n", "t", "=", "\"", "w", "i", "d", "t", "h", "=", "d", "e", "v", "i", "c", "e", "-", "w", "i", "d", "t", "h", ",", " ", "i", "n", "i", "t", "i", "a", "l", "-", "s", "c", "a", "l", "e", "=", "1", ".", "0", "\"", ">", "\n", " ", " ", "<", "t", "i", "t", "l", "e", ">">>
W_1 == <<"<", "/", "t", "i", "t", "l", "e", ">", "\n", " ", " ", "<", "m", "e", "t", "a", " ", "n", "a", "m", "e", "=", "\"", "d", "e", "s", "c", "r", "i", "p", "t", "i", "o", "n", "\"", " ", "c", "o", "n", "t", "e", "n", "t", "=", "\"">>
W_2 == <<"\"", ">", "\n", " ", " ", "<", "m", "e", "t", "a", " ", "p", "r", "o", "p", "e", "r", "t", "y", "=", "\"", "o", "g", ":", "t", "i", "t", "l", "e", "\"", " ", "c", "o", "n", "t", "e", "n", "t", "=", "\"">>
W_3 == <<"\"", ">", "\n", " ", " ", "<", "m", "e", "t", "a", " ", "p", "r", "o", "p", "e", "r", "t", "y", "=", "\"", "o", "g", ":", "d", "e", "s", "c", "r", "i", "p", "t", "i", "o", "n", "\"", " ", "c", "o", "n", "t", "e", "n", "t", "=", "\"">>
W_4 == <<"\"", ">", "\n", " ", " ", "<", "m", "e", "t", "a", " ", "p", "r", "o", "p", "e", "r", "t", "y", "=", "\"", "o", "g", ":", "u", "r", "l", "\"", " ", "c", "o", "n", "t", "e", "n", "t", "=", "\"">>
W_5 == <<"\"", ">", "\n", " ", " ", "<", "m", "e", "t", "a", " ", "p", "r", "o", "p", "e", "r", "t", "y", "=", "\"", "o", "g", ":", "t", "y", "p", "e", "\"", " ", "c", "o", "n", "t", "e", "n", "t", "=", "\"", "v", "i", "d", "e", "o", ".", "m", "o", "v", "i", "e", "\"", ">", "\n", " ", " ", "<", "m", "e", "t", "a", " ", "n", "a", "m", "e", "=", "\"", "t", "w", "i", "t", "t", "e", "r", ":", "t", "i", "t", "l", "e", "\"", " ", "c", "o", "n", "t", "e", "n", "t", "=", "\"">>
W_6 == <<"\"", ">", "\n", " ", " ", "<", "m", "e", "t", "a", " ", "n", "a", "m", "e", "=", "\"", "t", "w", "i", "t", "t", "e", "r", ":", "d", "e", "s", "c", "r", "i", "p", "t", "i", "o", "n", "\"", " ", "c", "o", "n", "t", "e", "n", "t", "=", "\"">>
W_7 == <<"\"", ">", "\n", "<", "/", "h", "e", "a", "d", ">", "\n", "<", "b", "o", "d", "y", ">", "\n", " ", " ", "<", "h", "1", ">", "S", "E", "O", " ", "W", "o", "r", "k", "e", "r", " ", "W", "o", "r", "k", "i", "n", "g", "!", "<", "/", "h", "1", ">", "\n", " ", " ", "<", "p", ">", "S", "l", "u", "g", ":", " ">>
W_8 == <<"<", "/", "p", ">", "\n", " ", " ", "<", "p", ">", "T", "i", "t", "l", "e", ":", " ">>
W_9 == <<"<", "/", "p", ">", "\n", " ", " ", "<", "p", ">", "D", "e", "s", "c", "r", "i", "p", "t", "i", "o", "n", ":", " ">>
W_10 == <<"<", "/", "p", ">", "\n", "<", "/", "b", "o", "d", "y", ">", "\n", "<", "/", "h", "t", "m", "l", ">">>

\* Lines 35-56: the body of the response the worker builds from seoData.
workerPage(seoData, slug, href) ==
  LET title == Or(seoData.title, WorkerDefaultTitle)
      desc  == Or(seoData.description, WorkerDefaultDesc)
  IN  W_0 \o title \o W_1 \o desc \o W_2 \o title \o W_3 \o desc \o W_4 \o href
      \o W_5 \o title \o W_6 \o desc \o W_7 \o slug
      \o W_8 \o Or(seoData.title, S_NA) \o W_9 \o Or(seoData.description, S_NA) \o W_10

\* Lines 35-58: the response around it.
workerResponse(seoData, slug, href) ==
  [status  |-> 200,
   headers |-> [h \in {"content-type"} |-> S_texthtml],
   body    |-> workerPage(seoData, slug, href)]

UA_googlebotLower == <<"g", "o", "o", "g", "l", "e", "b", "o", "t", "/", "2", ".", "1">>
UA_Facebook == <<"f", "a", "c", "e", "b", "o", "o", "k", "e", "x", "t", "e", "r", "n", "a", "l", "h", "i", "t", "/", "1", ".", "1">>
UA_Twitterbot == <<"T", "w", "i", "t", "t", "e", "r", "b", "o", "t", "/", "1", ".", "0">>
P_movieHostile == S_phim \o S_xs

WorkerUserAgents == UserAgents \cup {UA_googlebotLower, UA_Facebook, UA_Twitterbot}
WorkerPaths == {P_root, P_movieKnown, P_movieHostile, P_movieUnknown}

\* The answer of the seo-prerender function to the worker, as ServeTable.
WorkerServeTable ==
  Tabulate([path \in WorkerPaths, apiUp \in BOOLEAN, siteUp \in BOOLEAN, seoUp \in BOOLEAN |->
              serve(movieMatch(path), fetchMovieData(movieMatch(path), apiUp),
                    getSiteSettings(siteUp), getSeoSettings(seoUp))])

\* The response the worker builds for a path from such an answer.
WorkerPageTable ==
  Tabulate([path \in WorkerPaths, apiUp \in BOOLEAN, siteUp \in BOOLEAN, seoUp \in BOOLEAN |->
              IF WorkerServeTable[path, apiUp, siteUp, seoUp].status = 200
              THEN workerResponse(WorkerServeTable[path, apiUp, siteUp, seoUp].payload,
                                  movieMatch(path), ReqOrigin \o path)
              ELSE NoResponse])

WorkerBotTable == Tabulate([ua \in WorkerUserAgents |-> workerIsBot(ua)])

\* An answer of the seo-prerender function is named by which of its three
\* fetches succeeded; NoAnswer stands where no answer is being read.
NoAnswer == [apiUp |-> FALSE, siteUp |-> FALSE, seoUp |-> FALSE]

\* The worker's fetch handler at rest.  pc is where it is suspended, out the
\* response it returned; as history: gate (line 8 let the request in), seo
\* (the payload it rendered), nMeta and nForward (fetches it made), answer
\* (the 2xx answer whose body it is reading).
WorkerIdle ==
  [pc |-> "idle", method |-> "", ua |-> EmptyStr, path |-> EmptyStr, out |-> NoResponse,
   gate |-> FALSE, seo |-> NullSeo, nMeta |-> 0, nForward |-> 0,
   answer |-> NoAnswer]

\* No call of a pure function is under way.
NoCall == [fn |-> "none"]

\* Map.prototype.get found nothing.
NoEntry == [present |-> FALSE]

CacheKeys == {"k1", "k2"}

NoOp == [op |-> "none"]

\* The iteration order of a Map: Map.prototype.set puts a new key last and
\* leaves a key it already holds where it is; Map.prototype.delete takes the
\* key out.
MapSet(order, key) ==
  IF \E i \in 1..Len(order) : order[i] = key THEN order ELSE Append(order, key)
MapDelete(order, key) == SelectSeq(order, LAMBDA k : k # key)

\* The programs other than the Pages middleware, at rest.
LibIdle ==
  /\ wk = WorkerIdle
  /\ call = NoCall
  /\ apiCache = [k \in CacheKeys |-> NoEntry]
  /\ apiOrder = << >>
  /\ clock = 0
  /\ lastOp = NoOp

(***************************************************************************)
(* onRequest as a state machine: one step per await.                       *)
(*   pc      where the handler is suspended                                *)
(*   seo     the resolved payload (NullSeo until resolved, or when null)   *)
(*   origin  what context.next() answered to this request                  *)
(*   out     the response the handler returned                             *)
(*   result  "response", or "exception" when the handler's promise rejects *)
(* and, as history, what the handler did: nMatch cache.match calls, nPut   *)
(* cache.put calls, nMeta metadata fetches, nNext context.next() calls,    *)
(* rewrote (the transform ran), hit (cache.match found an entry),          *)
(* metaStatus (HTTP status of the metadata answer, 0 if none), fault (the  *)
(* failure injected by the environment, if any).                           *)
(* While the metadata is being fetched: kv is where each of the two        *)
(* fetchKvTable calls of getHomepageSeo stands, answer the 2xx answer of   *)
(* the seo-prerender function whose body getMovieSeo is reading.           *)
(***************************************************************************)
\* The two calls of line 96.
KvTables == {"seo_settings", "site_settings"}

\* A fetchKvTable call: not made ("none"), suspended at line 76 ("fetch") or
\* at line 84 ("json"), or returned with the rows ("rows") or with {}
\* ("empty").
KvIdle == [tb \in KvTables |-> "none"]
KvStarted == [tb \in KvTables |-> "fetch"]

Idle ==
  [pc |-> "idle", req |-> NoRequest, seo |-> NullSeo, origin |-> NoResponse,
   out |-> NoResponse, result |-> "none", nMatch |-> 0, nPut |-> 0, nMeta |-> 0,
   nNext |-> 0, rewrote |-> FALSE, hit |-> FALSE, metaStatus |-> 0, fault |-> "none",
   kv |-> KvIdle, answer |-> NoAnswer]

\* The handler's promise rejects: no statement of onRequest catches.
Throw(r, fault) == [r EXCEPT !.pc = "done", !.result = "exception", !.fault = fault]

\* The handler returns res.
Return(r, res) == [r EXCEPT !.pc = "done", !.result = "response", !.out = res]

\* Lines 278-288 up to the next await, entered on a cache miss (or with no
\* cache): route, start the metadata fetches, or call context.next().
AfterMiss(r) ==
  LET route == RouteTable[r.req.path]
  IN  IF route.kind = "home"
      THEN IF envOk THEN [r EXCEPT !.pc = "metaHome", !.nMeta = 2, !.kv = KvStarted]
           ELSE [r EXCEPT !.seo = HomeSeoTable[r.req.path, FALSE, FALSE],
                          !.pc = "buildNext", !.nNext = @ + 1]
      ELSE IF route.kind = "movie" /\ envOk
      THEN [r EXCEPT !.pc = "metaMovie", !.nMeta = 1]
      ELSE [r EXCEPT !.pc = "passNext", !.nNext = @ + 1]

\* A request arrives; onRequest runs to its first await (lines 254-274).
Receive(s) ==
  /\ s \in active
  /\ remaining > 0
  /\ reqs[s].pc \in {"idle", "done"}
  /\ \E req \in Requests :
       LET r == [Idle EXCEPT !.req = req]
       IN  reqs' = [reqs EXCEPT ![s] =
                      IF ~EntersTable[req]
                      THEN [r EXCEPT !.pc = "plainNext", !.nNext = 1]
                      ELSE IF cacheAvail
                      THEN [r EXCEPT !.pc = "match", !.nMatch = 1]
                      ELSE AfterMiss(r)]
  /\ remaining' = remaining - 1
  /\ UNCHANGED <<cache, cacheSrc, cacheAvail, envOk, active>>
  /\ UNCHANGED libVars

\* return context.next() of lines 261-268: the origin answers.
PlainNext(s) ==
  /\ reqs[s].pc = "plainNext"
  /\ \E o \in OriginResponses :
       reqs' = [reqs EXCEPT ![s] = Return([@ EXCEPT !.origin = o], o)]
  /\ UNCHANGED <<cache, cacheSrc, cacheAvail, envOk, active, remaining>>
  /\ UNCHANGED libVars

\* Line 270: the cache key is a Request with the URL and the method (and the
\* headers) of the request.  The Cache API matches a key whose method is
\* not GET with nothing, and stores no entry for one, so the entries are
\* those of GET keys and cache is indexed by the path alone.  (The runtime
\* does not look at Vary when it matches.)
Lookup(req) == IF req.method = "GET" THEN cache[req.path] ELSE NoResponse

\* A slip: the hit is noticed but not returned, and the pipeline runs on.
CacheMatchFallsThrough(s) ==
  /\ reqs[s].pc = "match"
  /\ LET cached == Lookup(reqs[s].req)
     IN  reqs' = [reqs EXCEPT ![s] =
                    IF cached # NoResponse
                    THEN AfterMiss([@ EXCEPT !.hit = TRUE])
                    ELSE AfterMiss(@)]
  /\ UNCHANGED <<cache, cacheSrc, cacheAvail, envOk, active, remaining>>
  /\ UNCHANGED libVars

\* Lines 274-275: cache.match answers; a hit is returned as it is.
CacheMatch(s) ==
  /\ reqs[s].pc = "match"
  /\ LET cached == Lookup(reqs[s].req)
     IN  reqs' = [reqs EXCEPT ![s] =
                    IF cached # NoResponse
                    THEN Return([@ EXCEPT !.hit = TRUE], cached)
                    ELSE AfterMiss(@)]
  /\ UNCHANGED <<cache, cacheSrc, cacheAvail, envOk, active, remaining>>
  /\ UNCHANGED libVars

\* Lines 96-116, once a fetchKvTable call has returned: when both have,
\* Promise.all resolves, getHomepageSeo builds the payload and onRequest
\* goes on to context.next() in buildSeoResponse; otherwise the handler
\* stays suspended.
HomeResolved(r) ==
  IF \A tb \in KvTables : r.kv[tb] \in {"rows", "empty"}
  THEN [r EXCEPT
          !.seo = HomeSeoTable[r.req.path, r.kv["seo_settings"] = "rows",
                               r.kv["site_settings"] = "rows"],
          !.metaStatus = IF \A tb \in KvTables : r.kv[tb] = "rows" THEN 200 ELSE 500,
          !.pc = "buildNext", !.nNext = @ + 1]
  ELSE r

\* fetchKvTable, line 76: the fetch of one table settles.  A 2xx answer
\* leads to res.json(); a non-2xx answer makes the call return {}; a
\* rejection rejects Promise.all and with it the handler, whatever the
\* other call is waiting for.
MetaHomeAnswer(s) ==
  /\ reqs[s].pc = "metaHome"
  /\ \E tb \in KvTables :
       /\ reqs[s].kv[tb] = "fetch"
       /\ \/ reqs' = [reqs EXCEPT ![s] = [@ EXCEPT !.kv[tb] = "json"]]
          \/ reqs' = [reqs EXCEPT ![s] =
                        HomeResolved([@ EXCEPT !.kv[tb] = "empty", !.fault = "metaNon2xx"])]
          \/ reqs' = [reqs EXCEPT ![s] = Throw(@, "metaThrow")]
  /\ UNCHANGED <<cache, cacheSrc, cacheAvail, envOk, active, remaining>>
  /\ UNCHANGED libVars

\* fetchKvTable, line 84: res.json() of one table settles, with the rows or
\* with a rejection (the body is not JSON).
MetaHomeJson(s) ==
  /\ reqs[s].pc = "metaHome"
  /\ \E tb \in KvTables :
       /\ reqs[s].kv[tb] = "json"
       /\ \/ reqs' = [reqs EXCEPT ![s] = HomeResolved([@ EXCEPT !.kv[tb] = "rows"])]
          \/ reqs' = [reqs EXCEPT ![s] = Throw(@, "metaThrow")]
  /\ UNCHANGED <<cache, cacheSrc, cacheAvail, envOk, active, remaining>>
  /\ UNCHANGED libVars

\* getMovieSeo, line 125: the fetch of the seo-prerender function settles.
\* Either the function ran (its own three fetches having succeeded or not),
\* or the platform answered non-2xx in its place, or the fetch rejected.  A
\* 2xx answer leads to res.json(); a non-2xx answer makes getMovieSeo
\* return null and onRequest call context.next() (line 282).
MetaMovieAnswer(s) ==
  /\ reqs[s].pc = "metaMovie"
  /\ LET slug == RouteTable[reqs[s].req.path].slug
     IN  \/ \E apiUp \in BOOLEAN, siteUp \in BOOLEAN, seoUp \in BOOLEAN :
              LET res == ServeTable[slug, apiUp, siteUp, seoUp]
              IN  reqs' = [reqs EXCEPT ![s] =
                             IF res.status = 200
                             THEN [@ EXCEPT !.metaStatus = res.status,
                                            !.answer = [apiUp |-> apiUp, siteUp |-> siteUp,
                                                        seoUp |-> seoUp],
                                            !.pc = "metaMovieJson"]
                             ELSE [@ EXCEPT !.metaStatus = res.status,
                                            !.fault = IF apiUp THEN "none" ELSE "metaNon2xx",
                                            !.pc = "passNext", !.nNext = @ + 1]]
         \/ reqs' = [reqs EXCEPT ![s] =
                       [@ EXCEPT !.metaStatus = 500, !.fault = "metaNon2xx",
                                 !.pc = "passNext", !.nNext = @ + 1]]
         \/ reqs' = [reqs EXCEPT ![s] = Throw(@, "metaThrow")]
  /\ UNCHANGED <<cache, cacheSrc, cacheAvail, envOk, active, remaining>>
  /\ UNCHANGED libVars

\* getMovieSeo, lines 133-140: res.json() settles, with the payload (and
\* onRequest goes on to context.next() in buildSeoResponse) or with a
\* rejection (the body is not JSON).
MetaMovieJson(s) ==
  /\ reqs[s].pc = "metaMovieJson"
  /\ LET slug == RouteTable[reqs[s].req.path].slug
         a    == reqs[s].answer
     IN  \/ reqs' = [reqs EXCEPT ![s] =
                       [@ EXCEPT !.seo = MovieSeoTable[slug, a.apiUp, a.siteUp, a.seoUp],
                                 !.pc = "buildNext", !.nNext = @ + 1]]
         \/ reqs' = [reqs EXCEPT ![s] = Throw(@, "metaThrow")]
  /\ UNCHANGED <<cache, cacheSrc, cacheAvail, envOk, active, remaining>>
  /\ UNCHANGED libVars

\* Line 282: the origin answers the passthrough fetch.
PassNext(s) ==
  /\ reqs[s].pc = "passNext"
  /\ \E o \in OriginResponses :
       reqs' = [reqs EXCEPT ![s] =
                  IF cacheAvail
                  THEN [@ EXCEPT !.origin = o, !.out = o, !.pc = "passPut", !.nPut = @ + 1]
                  ELSE Return([@ EXCEPT !.origin = o], o)]
  /\ UNCHANGED <<cache, cacheSrc, cacheAvail, envOk, active, remaining>>
  /\ UNCHANGED libVars

\* Lines 283-284: cache.put of the passthrough settles; a rejection of
\* cache.put is not caught.  cache.put rejects when the runtime refuses the
\* entry, and always when the method of the key is not GET.
PassPut(s) ==
  /\ reqs[s].pc = "passPut"
  /\ \/ /\ reqs[s].req.method = "GET"
        /\ reqs' = [reqs EXCEPT ![s] = Return(@, @.out)]
        /\ cache' = [cache EXCEPT ![reqs[s].req.path] = reqs[s].out]
        /\ cacheSrc' = [cacheSrc EXCEPT ![reqs[s].req.path] = "passthrough"]
     \/ /\ reqs' = [reqs EXCEPT ![s] = Throw(@, "putThrow")]
        /\ UNCHANGED <<cache, cacheSrc>>
  /\ UNCHANGED <<cacheAvail, envOk, active, remaining>>
  /\ UNCHANGED libVars

\* Lines 210-250: the origin answers inside buildSeoResponse, which then
\* runs to its end; a throw of rewriter.transform is not caught.
BuildNext(s) ==
  /\ reqs[s].pc = "buildNext"
  /\ \E o \in OriginResponses :
       LET r   == reqs[s]
           out == BuildTable[o, r.seo, r.req.path]
           r1  == [r EXCEPT !.origin = o, !.out = out, !.rewrote = HtmlTable[o]]
       IN  \/ reqs' = [reqs EXCEPT ![s] =
                         IF cacheAvail
                         THEN [r1 EXCEPT !.pc = "outPut", !.nPut = @ + 1]
                         ELSE Return(r1, out)]
           \/ /\ HtmlTable[o]
              /\ reqs' = [reqs EXCEPT ![s] = Throw([r EXCEPT !.origin = o], "transformThrow")]
  /\ UNCHANGED <<cache, cacheSrc, cacheAvail, envOk, active, remaining>>
  /\ UNCHANGED libVars

\* Lines 289-291: cache.put of the built response settles, as in PassPut.
OutPut(s) ==
  /\ reqs[s].pc = "outPut"
  /\ \/ /\ reqs[s].req.method = "GET"
        /\ reqs' = [reqs EXCEPT ![s] = Return(@, @.out)]
        /\ cache' = [cache EXCEPT ![reqs[s].req.path] = reqs[s].out]
        /\ cacheSrc' = [cacheSrc EXCEPT ![reqs[s].req.path] =
                          IF reqs[s].rewrote THEN "rewritten" ELSE "unrewritten"]
     \/ /\ reqs' = [reqs EXCEPT ![s] = Throw(@, "putThrow")]
        /\ UNCHANGED <<cache, cacheSrc>>
  /\ UNCHANGED <<cacheAvail, envOk, active, remaining>>
  /\ UNCHANGED libVars

Init ==
  /\ reqs = [s \in Slots |-> Idle]
  /\ cache = [u \in Paths |-> NoResponse]
  /\ cacheSrc = [u \in Paths |-> "none"]
  /\ cacheAvail \in BOOLEAN
  /\ envOk \in BOOLEAN
  /\ active = {1}
  /\ remaining = MaxRequests
  /\ LibIdle

Next ==
  \E s \in Slots :
    \/ Receive(s)
    \/ PlainNext(s)
    \/ CacheMatch(s)
    \/ MetaHomeAnswer(s)
    \/ MetaHomeJson(s)
    \/ MetaMovieAnswer(s)
    \/ MetaMovieJson(s)
    \/ PassNext(s)
    \/ PassPut(s)
    \/ BuildNext(s)
    \/ OutPut(s)

Spec == Init /\ [][Next]_vars

\* The handler's own steps are scheduled by the runtime and the origin and the
\* cache answer; nothing makes the metadata source answer, and onRequest sets
\* no timeout on its fetches.
LiveSpec ==
  /\ Init
  /\ [][Next]_vars
  /\ \A s \in Slots :
       /\ WF_vars(PlainNext(s))
       /\ WF_vars(CacheMatch(s))
       /\ WF_vars(PassNext(s))
       /\ WF_vars(PassPut(s))
       /\ WF_vars(BuildNext(s))
       /\ WF_vars(OutPut(s))

(***************************************************************************)
(* seo-worker.js: fetch as a state machine, one step per await.            *)
(***************************************************************************)
\* The Pages middleware at rest, for the specifications of the other programs.
MwIdle ==
  /\ reqs = [s \in Slots |-> Idle]
  /\ cache = [u \in Paths |-> NoResponse]
  /\ cacheSrc = [u \in Paths |-> "none"]
  /\ cacheAvail = FALSE
  /\ envOk = FALSE
  /\ active = {}
  /\ remaining = 0

\* Lines 3-23: a request arrives and the handler runs to its first await.
WorkerReceive ==
  /\ wk.pc \in {"idle", "done"}
  /\ \E method \in Methods, ua \in WorkerUserAgents, path \in WorkerPaths :
       LET r == [WorkerIdle EXCEPT !.method = method, !.ua = ua, !.path = path]
       IN  wk' = IF ~WorkerBotTable[ua]
                 THEN [r EXCEPT !.pc = "forward", !.nForward = 1]
                 ELSE IF movieMatch(path) # EmptyStr
                 THEN [r EXCEPT !.gate = TRUE, !.pc = "meta", !.nMeta = 1]
                 ELSE [r EXCEPT !.gate = TRUE, !.pc = "forward", !.nForward = 1]
  /\ UNCHANGED <<mwVars, call, apiCache, apiOrder, clock, lastOp>>

\* Lines 23-30: the fetch of the seo-prerender function settles.  A 2xx
\* answer leads to seoResponse.json(); a non-2xx answer and a rejection
\* (caught at line 60) lead on to line 66.
WorkerMetaAnswer ==
  /\ wk.pc = "meta"
  /\ \/ \E apiUp \in BOOLEAN, siteUp \in BOOLEAN, seoUp \in BOOLEAN :
          LET res == WorkerServeTable[wk.path, apiUp, siteUp, seoUp]
          IN  wk' = IF res.status = 200
                    THEN [wk EXCEPT !.pc = "metaJson",
                                    !.answer = [apiUp |-> apiUp, siteUp |-> siteUp,
                                                seoUp |-> seoUp]]
                    ELSE [wk EXCEPT !.pc = "forward", !.nForward = 1]
     \/ wk' = [wk EXCEPT !.pc = "forward", !.nForward = 1]
  /\ UNCHANGED <<mwVars, call, apiCache, apiOrder, clock, lastOp>>

\* Lines 31-62: seoResponse.json() settles.  The payload is rendered and
\* returned; a body that is not JSON (caught at line 60) leads on to line 66.
WorkerMetaJson ==
  /\ wk.pc = "metaJson"
  /\ LET a == wk.answer
     IN  \/ wk' = [wk EXCEPT
                     !.pc = "done",
                     !.seo = WorkerServeTable[wk.path, a.apiUp, a.siteUp, a.seoUp].payload,
                     !.out = WorkerPageTable[wk.path, a.apiUp, a.siteUp, a.seoUp]]
         \/ wk' = [wk EXCEPT !.pc = "forward", !.nForward = 1]
  /\ UNCHANGED <<mwVars, call, apiCache, apiOrder, clock, lastOp>>

\* Lines 10 and 66: return fetch(request); Pages answers.
WorkerForward ==
  /\ wk.pc = "forward"
  /\ \E o \in OriginResponses : wk' = [wk EXCEPT !.pc = "done", !.out = o]
  /\ UNCHANGED <<mwVars, call, apiCache, apiOrder, clock, lastOp>>

WorkerInit == MwIdle /\ LibIdle

WorkerNext == WorkerReceive \/ WorkerMetaAnswer \/ WorkerMetaJson \/ WorkerForward

WorkerSpec == WorkerInit /\ [][WorkerNext]_vars

(***************************************************************************)
(* src/lib/api.ts: the SEO template utilities of the client library.       *)
(***************************************************************************)
T_tag == <<"t", "a", "g">>
T_thumb == <<"t", "h", "u", "m", "b">>
S_nbsp == <<"&", "n", "b", "s", "p", ";">>

\* stripHtml of the client library: tags out, &nbsp; to a space, trim; white
\* space is not collapsed.
clientStripHtml(html) ==
  IF html = EmptyStr THEN EmptyStr
  ELSE Trim(ReplaceMatches(StripTags(html), StripTags(html), S_nbsp, <<" ">>))

\* The tokens of the client replaceSeoVariables, in the order it replaces
\* them, each with the key of the variable that gives its value.
ClientSeoTokens ==
  << <<T_sitename, "sitename">>, <<T_phim, "phim">>, <<T_phimgoc, "phimgoc">>,
     <<T_theloai, "theloai">>, <<T_quocgia, "quocgia">>, <<T_nam, "nam">>,
     <<T_tag, "tag">>, <<T_dienvien, "dienvien">>, <<T_daodien, "daodien">>,
     <<T_tap, "tap">>, <<T_chatluong, "chatluong">>, <<T_ngonngu, "ngonngu">>,
     <<T_noidung, "noidung">>, <<T_thumb, "thumb">> >>

\* Line 896: %nam% is String(variables.nam) unless variables.nam is
\* undefined or null, so the number 0 gives "0".
clientTokenValue(k, variables) ==
  IF ClientSeoTokens[k][2] = "noidung"
  THEN clientStripHtml(Get(variables, "noidung"))
  ELSE IF ClientSeoTokens[k][2] = "nam"
  THEN IF "nam" \in DOMAIN variables THEN StringOf(variables.nam) ELSE EmptyStr
  ELSE Get(variables, ClientSeoTokens[k][2])

RECURSIVE ClientReplaceTokens(_, _, _)
ClientReplaceTokens(s, variables, k) ==
  IF k > Len(ClientSeoTokens) THEN s
  ELSE ClientReplaceTokens(
         ReplaceAllCI(s, TokenPattern(ClientSeoTokens[k][1]), clientTokenValue(k, variables)),
         variables, k + 1)

clientReplaceSeoVariables(template, variables) ==
  IF template = EmptyStr THEN EmptyStr
  ELSE CollapseSpaces(ClientReplaceTokens(template, variables, 1))

\* truncateText of the client library: no stripping, and the cut is trimmed.
clientTruncateText(text, maxLength) ==
  IF text = EmptyStr \/ Len(text) <= maxLength THEN text
  ELSE Trim(Substring0(text, maxLength - 3)) \o S_ellipsis

(***************************************************************************)
(* The pure functions, each applied to arguments drawn from bounded sets.  *)
(***************************************************************************)
MaxSegLen == 3
MaxTextLen == 5
MaxMaxLength == 7

\* Paths: a prefix, then up to MaxSegLen characters, "/" among them.
RoutePrefixes ==
  { S_phim, <<"/", "P", "H", "I", "M", "/">>, <<"/", "P", "h", "i", "m", "/">>, <<"/", "p", "h", "i", "/">>, S_slash, EmptyStr }
RouteSegs == UNION {[1..k -> {"x", "X", "/"}] : k \in 0..MaxSegLen}
RoutePaths ==
  {pre \o seg : pre \in RoutePrefixes, seg \in RouteSegs}
  \cup {S_index, <<"/", "I", "N", "D", "E", "X", ".", "H", "T", "M", "L">>, <<"/", "i", "n", "d", "e", "x", ".", "h", "t", "m">>}

\* The headers isLikelyBot reads.
UA_Chrome == <<"M", "o", "z", "i", "l", "l", "a", "/", "5", ".", "0", " ", "C", "h", "r", "o", "m", "e", "/", "1", "2", "0">>
S_PrefetchMixed == <<"P", "r", "e", "f", "e", "t", "c", "h", ";", "x">>
BotUserAgents == {EmptyStr, UA_Browser, UA_Chrome, UA_Googlebot, UA_Twitterbot}
PurposeValues == {EmptyStr, S_prefetch, S_PrefetchMixed, <<"x">>}
BotHeaders == [ua : BotUserAgents, purpose : PurposeValues, secPurpose : PurposeValues]

\* Texts with markup and white space in them: every text of up to
\* MaxTextLen characters, three with line ends, no-break spaces and a form
\* feed, and three with the white space of other scripts.
Texts ==
  UNION {[1..k -> {"a", " ", "<", ">"}] : k \in 0..MaxTextLen}
  \cup { <<"a", "\r", "\n", "a", " ", "a">>,
         <<"a", "a", "\r", "\n", "a", "a", "a">>,
         <<"a", " ", " ", "a", "\f">>,
         <<"a", "U+3000", "U+3000", "a">>,
         <<"U+2003", "a", "a", "a", "a", "a", "U+2003">>,
         <<"<", "a", ">", "a", "U+2028", "U+2029", "a", "a", "a">> }
MaxLengths == 0..MaxMaxLength

\* Templates and variable mappings.
Templates ==
  { EmptyStr,
    <<"%", "t", "a", "g", "%">>,
    <<"%", "T", "H", "U", "M", "B", "%", " ", "x">>,
    <<"%", "p", "h", "i", "m", "%", " ", "-", " ", "%", "n", "a", "m", "%">>,
    <<"%", "p", "%", "p", "h", "i", "m", "%", "h", "i", "m", "%">>,
    <<"%", "P", "h", "i", "m", "%", " ", " ", "%", "S", "i", "t", "e", "N", "a", "m", "e", "%">>,
    <<"1", "0", "0", "%", " ", "%", "x", "%">>,
    <<"%", "n", "o", "i", "d", "u", "n", "g", "%", " ", "%", "d", "a", "o", "d", "i", "e", "n", "%">>,
    <<"x", "%", "p", "h", "i", "m", "%", "U+3000", "%", "t", "a", "p", "%">> }

VariableKeys ==
  {"sitename", "phim", "phimgoc", "theloai", "quocgia", "nam", "tag", "dienvien",
   "daodien", "tap", "chatluong", "ngonngu", "noidung", "thumb"}

VariableMaps ==
  { NoRows,
    [k \in VariableKeys |->
       IF k = "noidung" THEN <<"<", "b", ">", "n", "<", "/", "b", ">">>
       ELSE IF k = "nam" THEN JsString(<<"v">>) ELSE <<"v">>],
    [k \in {"sitename", "phim"} |-> IF k = "phim" THEN <<"%", "s", "i", "t", "e", "n", "a", "m", "e", "%">> ELSE <<"S">>],
    [k \in {"phim", "tap"} |-> IF k = "phim" THEN <<"%", "t", "a", "p", "%">> ELSE <<"T", "8">>],
    [k \in {"phim", "nam", "noidung"} |->
       IF k = "phim" THEN <<"U", "S", "$", "$", "$", "&">>
       ELSE IF k = "nam" THEN JsNumber(0) ELSE <<"a", "\r", "\n", "b">>],
    [k \in {"phim", "tap", "noidung"} |->
       IF k = "phim" THEN <<"a", "$", GraveAccent, "b">>
       ELSE IF k = "tap" THEN <<"T", "U+3000", "8">>
       ELSE <<"<", "p", ">", "a", "U+3000", "U+3000", "b", "<", "/", "p", ">">>] }

Implementations == {"edge", "client"}

\* The calls that can be made, before they run.
PendingCalls ==
  [fn : {"routeToSeo"}, done : {FALSE}, path : RoutePaths]
  \cup [fn : {"isLikelyBot"}, done : {FALSE}, req : BotHeaders]
  \cup [fn : {"replaceSeoVariables"}, done : {FALSE}, impl : Implementations,
         template : Templates, variables : VariableMaps]
  \cup [fn : {"truncateText"}, done : {FALSE}, impl : Implementations,
         text : Texts, maxLength : MaxLengths]

\* A call with its result.
Returned(c, result) ==
  [k \in DOMAIN c \cup {"result"} |->
     IF k = "result" THEN result ELSE IF k = "done" THEN TRUE ELSE c[k]]

CallRouteToSeo ==
  /\ call.fn = "routeToSeo" /\ ~call.done
  /\ call' = Returned(call, routeToSeo(call.path))
  /\ UNCHANGED <<mwVars, wk, apiCache, apiOrder, clock, lastOp>>

CallIsLikelyBot ==
  /\ call.fn = "isLikelyBot" /\ ~call.done
  /\ call' = Returned(call, isLikelyBot(call.req))
  /\ UNCHANGED <<mwVars, wk, apiCache, apiOrder, clock, lastOp>>

CallReplaceSeoVariables ==
  /\ call.fn = "replaceSeoVariables" /\ ~call.done
  /\ call' = Returned(call,
                IF call.impl = "edge"
                THEN replaceSeoVariables(call.template, call.variables)
                ELSE clientReplaceSeoVariables(call.template, call.variables))
  /\ UNCHANGED <<mwVars, wk, apiCache, apiOrder, clock, lastOp>>

CallTruncateText ==
  /\ call.fn = "truncateText" /\ ~call.done
  /\ call' = Returned(call,
                IF call.impl = "edge"
                THEN truncateText(call.text, call.maxLength)
                ELSE clientTruncateText(call.text, call.maxLength))
  /\ UNCHANGED <<mwVars, wk, apiCache, apiOrder, clock, lastOp>>

PureInit ==
  /\ MwIdle
  /\ wk = WorkerIdle
  /\ apiCache = [k \in CacheKeys |-> NoEntry]
  /\ apiOrder = << >>
  /\ clock = 0
  /\ lastOp = NoOp
  /\ call \in PendingCalls

PureNext ==
  \/ CallRouteToSeo
  \/ CallIsLikelyBot
  \/ CallReplaceSeoVariables
  \/ CallTruncateText

PureSpec == PureInit /\ [][PureNext]_vars

(***************************************************************************)
(* ApiCache: the in-memory cache of the client library, as a state         *)
(* machine.  apiCache is the Map (NoEntry for a key it does not hold) and   *)
(* apiOrder its keys in iteration order, clock is Date.now() in            *)
(* milliseconds, and lastOp is the last call with what it returned and, as *)
(* history, the arguments of the last set of each key that no clear has    *)
(* removed since.  Every public member of the class is an action.          *)
(***************************************************************************)
MaxTicks == 2
MaxTtl == 2

defaultTTL == 5 * 60 * 1000

Null == "null"
\* The values stored: "v1" and "v2" are responses without a list of movies;
\* two more are responses with one, {items: [m1, m2]} and
\* {data: {items: [m1]}}, and ItemCounts gives the length of their lists.
ItemsResponse == "{items:[m1,m2]}"
PagedResponse == "{data:{items:[m1]}}"
ItemCounts == [d \in {ItemsResponse, PagedResponse} |->
                 IF d = ItemsResponse THEN 2 ELSE 1]
CacheValues == {"v1", "v2"}

\* set's optional ttl argument: given (a number of milliseconds) or left out.
NoTtl == [given |-> FALSE, ms |-> 0]
Ttls == [given : {TRUE}, ms : -1..MaxTtl] \cup {NoTtl}

NoSet == [made |-> FALSE]
MaxClock == defaultTTL + MaxTicks

\* ttl || this.defaultTTL
TtlOrDefault(ttl) == IF ttl.given /\ ttl.ms # 0 THEN ttl.ms ELSE defaultTTL

\* Date.now() > entry.expiry
Expired(entry, now) == now > entry.expiry

ApiSet(key, data, ttl) ==
  /\ apiCache' = [apiCache EXCEPT ![key] =
                    [present |-> TRUE, data |-> data,
                     expiry |-> clock + TtlOrDefault(ttl)]]
  /\ apiOrder' = MapSet(apiOrder, key)
  /\ lastOp' = [op |-> "set", key |-> key, result |-> Null, at |-> clock,
                sets |-> [lastOp.sets EXCEPT ![key] =
                            [made |-> TRUE, data |-> data, ttl |-> ttl, at |-> clock]]]
  /\ UNCHANGED <<mwVars, wk, call, clock>>

ApiGet(key) ==
  LET entry == apiCache[key]
  IN  /\ IF ~entry.present
         THEN /\ UNCHANGED <<apiCache, apiOrder>>
              /\ lastOp' = [op |-> "get", key |-> key, result |-> Null,
                            at |-> clock, sets |-> lastOp.sets]
         ELSE IF Expired(entry, clock)
         THEN /\ apiCache' = [apiCache EXCEPT ![key] = NoEntry]
              /\ apiOrder' = MapDelete(apiOrder, key)
              /\ lastOp' = [op |-> "get", key |-> key, result |-> Null,
                            at |-> clock, sets |-> lastOp.sets]
         ELSE /\ UNCHANGED <<apiCache, apiOrder>>
              /\ lastOp' = [op |-> "get", key |-> key, result |-> entry.data,
                            at |-> clock, sets |-> lastOp.sets]
      /\ UNCHANGED <<mwVars, wk, call, clock>>

ApiHas(key) ==
  LET entry == apiCache[key]
      live  == entry.present /\ ~Expired(entry, clock)
  IN  /\ apiCache' = IF entry.present /\ ~live
                     THEN [apiCache EXCEPT ![key] = NoEntry] ELSE apiCache
      /\ apiOrder' = IF entry.present /\ ~live
                     THEN MapDelete(apiOrder, key) ELSE apiOrder
      /\ lastOp' = [op |-> "has", key |-> key,
                    result |-> IF live THEN "true" ELSE "false",
                    at |-> clock, sets |-> lastOp.sets]
      /\ UNCHANGED <<mwVars, wk, call, clock>>

\* clear(key): one key is deleted.
ApiClearKey(key) ==
  /\ apiCache' = [apiCache EXCEPT ![key] = NoEntry]
  /\ apiOrder' = MapDelete(apiOrder, key)
  /\ lastOp' = [op |-> "clear", key |-> key, result |-> Null, at |-> clock,
                sets |-> [lastOp.sets EXCEPT ![key] = NoSet]]
  /\ UNCHANGED <<mwVars, wk, call, clock>>

\* clear(): the map is emptied.
ApiClearAll ==
  /\ apiCache' = [k \in CacheKeys |-> NoEntry]
  /\ apiOrder' = << >>
  /\ lastOp' = [op |-> "clear", key |-> "all", result |-> Null, at |-> clock,
                sets |-> [k \in CacheKeys |-> NoSet]]
  /\ UNCHANGED <<mwVars, wk, call, clock>>

\* cleanup(): the Map and its order once every expired entry is deleted.
cleanupOf(map, now) ==
  [k \in CacheKeys |->
     IF map[k].present /\ Expired(map[k], now) THEN NoEntry ELSE map[k]]
cleanupOrder(map, order, now) ==
  SelectSeq(order, LAMBDA k : ~Expired(map[k], now))

ApiCleanup ==
  /\ apiCache' = cleanupOf(apiCache, clock)
  /\ apiOrder' = cleanupOrder(apiCache, apiOrder, clock)
  /\ lastOp' = [op |-> "cleanup", key |-> "all", result |-> Null,
                at |-> clock, sets |-> lastOp.sets]
  /\ UNCHANGED <<mwVars, wk, call, clock>>

\* get size(): the number of entries; nothing is deleted.
ApiSize ==
  /\ lastOp' = [op |-> "size", key |-> "all", result |-> Len(apiOrder),
                at |-> clock, sets |-> lastOp.sets]
  /\ UNCHANGED <<mwVars, wk, call, apiCache, apiOrder, clock>>

\* entries.sort((a, b) => a.expiresIn - b.expiresIn): ascending, and entries
\* that compare equal keep their order (Array.prototype.sort is stable).
SortByExpiresIn(entries) ==
  LET n == Len(entries)
      rank(i) == Cardinality({j \in 1..n :
                    \/ entries[j].expiresIn < entries[i].expiresIn
                    \/ entries[j].expiresIn = entries[i].expiresIn /\ j < i}) + 1
  IN  [p \in 1..n |-> entries[CHOOSE i \in 1..n : rank(i) = p]]

\* The items a cached response holds: entry.data?.data?.items, or else
\* entry.data?.items.
MovieCount(data) ==
  IF data \in DOMAIN ItemCounts THEN ItemCounts[data] ELSE 0

RECURSIVE SumMovies(_, _, _)
SumMovies(map, order, i) ==
  IF i > Len(order) THEN 0
  ELSE MovieCount(map[order[i]].data) + SumMovies(map, order, i + 1)

\* getStats(): cleanup() first, then one line per entry left, in Map order
\* and sorted by the seconds it has left, and the movies counted.  The
\* seconds are Math.max(0, Math.round(ms / 1000)), and Math.round of an
\* integer number of thousandths is the nearest integer, a half going up.
ApiGetStats ==
  LET map   == cleanupOf(apiCache, clock)
      order == cleanupOrder(apiCache, apiOrder, clock)
      lines == [i \in 1..Len(order) |->
                  [key |-> order[i],
                   expiresIn |-> LET s == (map[order[i]].expiry - clock + 500) \div 1000
                                 IN  IF s > 0 THEN s ELSE 0,
                   expiresAt |-> map[order[i]].expiry]]
  IN  /\ apiCache' = map
      /\ apiOrder' = order
      /\ lastOp' = [op |-> "getStats", key |-> "all",
                    result |-> [totalEntries |-> Len(order),
                                entries |-> SortByExpiresIn(lines),
                                totalMovies |-> SumMovies(map, order, 1)],
                    at |-> clock, sets |-> lastOp.sets]
      /\ UNCHANGED <<mwVars, wk, call, clock>>

\* Time passes: by a millisecond, or by the default lifetime at once.
Tick(d) ==
  /\ clock + d <= MaxClock
  /\ d = 1 => clock % defaultTTL < MaxTicks
  /\ clock' = clock + d
  /\ UNCHANGED <<mwVars, wk, call, apiCache, apiOrder, lastOp>>

CacheInit ==
  /\ MwIdle
  /\ wk = WorkerIdle
  /\ call = NoCall
  /\ apiCache = [k \in CacheKeys |-> NoEntry]
  /\ apiOrder = << >>
  /\ clock = 0
  /\ lastOp = [op |-> "none", key |-> "none", result |-> Null, at |-> 0,
               sets |-> [k \in CacheKeys |-> NoSet]]

CacheNext ==
  \/ \E key \in CacheKeys, data \in {"v1"} \cup DOMAIN ItemCounts,
          ttl \in Ttls : ApiSet(key, data, ttl)
  \/ \E key \in CacheKeys : ApiGet(key)
  \/ \E key \in CacheKeys : ApiHas(key)
  \/ \E key \in CacheKeys : ApiClearKey(key)
  \/ ApiClearAll
  \/ ApiCleanup
  \/ ApiSize
  \/ ApiGetStats
  \/ \E d \in {1, defaultTTL} : Tick(d)

CacheSpec == CacheInit /\ [][CacheNext]_vars

(***************************************************************************)
(* cachedFetch: the helper that reads through the cache, one step per      *)
(* await.  call holds the call in flight: its arguments, where it is       *)
(* suspended (pc) and what it gave ("pending", "throw", or the data).      *)
(***************************************************************************)
\* What response.json() can give: the values above, and a falsy one.
JsonBodies == CacheValues \cup {""}

\* options?.ttl: left out, zero, or a number of milliseconds.
FetchTtls == {NoTtl} \cup [given : {TRUE}, ms : {0, MaxTtl}]

\* if (cached)
Truthy(data) == data # Null /\ data # ""

\* apiCache.get(key) at time now: what it returns and the map it leaves.
getOf(map, key, now) ==
  LET entry == map[key]
  IN  IF ~entry.present THEN [result |-> Null, map |-> map]
      ELSE IF Expired(entry, now)
      THEN [result |-> Null, map |-> [map EXCEPT ![key] = NoEntry]]
      ELSE [result |-> entry.data, map |-> map]

\* Lines 124-132: the cache is asked unless forceRefresh is set, and on a
\* miss the fetch is sent.
CachedFetchStart(url, ttl, forceRefresh) ==
  /\ IF call.fn = "none" THEN TRUE ELSE call.pc = "done"
  /\ LET got == IF forceRefresh THEN [result |-> Null, map |-> apiCache]
                ELSE getOf(apiCache, url, clock)
         c   == [fn |-> "cachedFetch", url |-> url, ttl |-> ttl,
                 forceRefresh |-> forceRefresh, pc |-> "fetch", result |-> "pending"]
     IN  /\ apiCache' = got.map
         /\ apiOrder' = IF got.map[url].present THEN apiOrder
                        ELSE MapDelete(apiOrder, url)
         /\ call' = IF Truthy(got.result)
                    THEN [c EXCEPT !.pc = "done", !.result = got.result]
                    ELSE c
  /\ UNCHANGED <<mwVars, wk, clock, lastOp>>

\* A slip: the answer is stored before its status is looked at.
CachedFetchAnswerStoresFirst ==
  /\ call.fn = "cachedFetch" /\ call.pc = "fetch"
  /\ \/ /\ call' = [call EXCEPT !.pc = "json"]
        /\ UNCHANGED <<apiCache, apiOrder>>
     \/ /\ call' = [call EXCEPT !.pc = "done", !.result = "throw"]
        /\ \/ UNCHANGED <<apiCache, apiOrder>>
           \/ /\ apiCache' = [apiCache EXCEPT ![call.url] =
                                [present |-> TRUE, data |-> "",
                                 expiry |-> clock + TtlOrDefault(call.ttl)]]
              /\ apiOrder' = MapSet(apiOrder, call.url)
  /\ UNCHANGED <<mwVars, wk, clock, lastOp>>

\* Lines 133-136: the fetch settles: an ok response, or a rejection or a
\* response that is not ok, on which cachedFetch throws.
CachedFetchAnswer ==
  /\ call.fn = "cachedFetch" /\ call.pc = "fetch"
  /\ \/ call' = [call EXCEPT !.pc = "json"]
     \/ call' = [call EXCEPT !.pc = "done", !.result = "throw"]
  /\ UNCHANGED <<mwVars, wk, apiCache, apiOrder, clock, lastOp>>

\* Lines 138-143: response.json() settles: the data is stored and returned,
\* or the body does not parse and cachedFetch throws.
CachedFetchJson ==
  /\ call.fn = "cachedFetch" /\ call.pc = "json"
  /\ \/ \E data \in JsonBodies :
          /\ apiCache' = [apiCache EXCEPT ![call.url] =
                            [present |-> TRUE, data |-> data,
                             expiry |-> clock + TtlOrDefault(call.ttl)]]
          /\ apiOrder' = MapSet(apiOrder, call.url)
          /\ call' = [call EXCEPT !.pc = "done", !.result = data]
     \/ /\ call' = [call EXCEPT !.pc = "done", !.result = "throw"]
        /\ UNCHANGED <<apiCache, apiOrder>>
  /\ UNCHANGED <<mwVars, wk, clock, lastOp>>

FetchInit ==
  /\ MwIdle
  /\ LibIdle

FetchNext ==
  \/ \E url \in CacheKeys, ttl \in FetchTtls, forceRefresh \in BOOLEAN :
       CachedFetchStart(url, ttl, forceRefresh)
  \/ CachedFetchAnswer
  \/ CachedFetchJson
  \/ \E d \in {1, defaultTTL} : Tick(d)

FetchSpec == FetchInit /\ [][FetchNext]_vars

(***************************************************************************)
(* Two crawler requests for one URL in flight at once: each slot runs      *)
(* onRequest once, and the steps of the two runs interleave at the awaits. *)
(***************************************************************************)
\* The crawler requests of the concurrent runs.
CrawlerRequests ==
  {req \in Requests :
     /\ req.method = "GET" /\ req.accept = Accept_Html
     /\ req.ua = UA_Googlebot /\ req.purpose = EmptyStr
     /\ req.path \in {P_root, P_movieKnown, P_movieUnknown}}

\* A request arrives on a free slot, for the URL the other slot was asked
\* for if it was asked; onRequest runs to cache.match (lines 254-274).
ConcReceive(s) ==
  /\ s \in active
  /\ reqs[s].pc = "idle"
  /\ \E req \in CrawlerRequests :
       /\ \A o \in Slots \ {s} :
            reqs[o].pc # "idle" => reqs[o].req.path = req.path
       /\ reqs' = [reqs EXCEPT ![s] =
                     [Idle EXCEPT !.req = req, !.pc = "match", !.nMatch = 1]]
  /\ remaining' = remaining - 1
  /\ UNCHANGED <<cache, cacheSrc, cacheAvail, envOk, active>>
  /\ UNCHANGED libVars

ConcInit ==
  /\ reqs = [s \in Slots |-> Idle]
  /\ cache = [u \in Paths |-> NoResponse]
  /\ cacheSrc = [u \in Paths |-> "none"]
  /\ cacheAvail = TRUE
  /\ envOk \in BOOLEAN
  /\ active = Slots
  /\ remaining = Cardinality(Slots)
  /\ LibIdle

ConcNext ==
  \E s \in Slots :
    \/ ConcReceive(s)
    \/ CacheMatch(s)
    \/ MetaHomeAnswer(s)
    \/ MetaHomeJson(s)
    \/ MetaMovieAnswer(s)
    \/ MetaMovieJson(s)
    \/ PassNext(s)
    \/ PassPut(s)
    \/ BuildNext(s)
    \/ OutPut(s)

ConcSpec == ConcInit /\ [][ConcNext]_vars

(***************************************************************************)
(* The claims.                                                             *)
(***************************************************************************)
Finished(r) == r.pc = "done"

\* The response cache held no entry for the request's URL when it arrived.
CacheWasEmptyFor(r) ==
  ~r.hit /\ (cache[r.req.path] = NoResponse \/ r.nPut > 0)

\* C1: every entry of the response cache is a response that was rewritten
\* from a resolved payload; a passthrough (resolver null, or a non-HTML
\* origin response) is never stored.
C1_CacheHoldsOnlyRewritten ==
  \A u \in Paths :
    /\ cacheSrc[u] \in {"none", "rewritten"}
    /\ cache[u] \notin OriginResponses

\* C2: when the metadata call fails (network error, non-2xx, unparseable
\* body) the handler returns the unmodified origin response, never an error
\* and never an escaped exception.
C2_MetaFailureFallsBack ==
  \A s \in Slots :
    LET r == reqs[s]
    IN  (Finished(r) /\ r.fault \in {"metaThrow", "metaNon2xx"})
          => (r.result = "response" /\ r.out = r.origin)

\* C3: a bot request whose metadata call is pending eventually receives a
\* response, even when the metadata source never answers.
C3_BotRequestGetsResponse ==
  \A s \in Slots :
    (reqs[s].pc \in {"metaHome", "metaMovie", "metaMovieJson"}) ~> (reqs[s].pc = "done")

\* C4: a request not classified as a bot gets the origin response, and the
\* handler neither reads nor writes the cache, calls no metadata source and
\* rewrites nothing for it.
C4_NonBotBypassesPipeline ==
  \A s \in Slots :
    LET r == reqs[s]
    IN  (r.pc # "idle" /\ ~BotTable[r.req])
          => /\ r.pc \in {"plainNext", "done"}
             /\ r.nMatch = 0 /\ r.nPut = 0 /\ r.nMeta = 0
             /\ ~r.rewrote /\ ~r.hit
             /\ r.seo = NullSeo
             /\ Finished(r) => (r.result = "response" /\ r.out = r.origin)

\* A browser asked for the page of a movie whose bot-rewritten response is in
\* the cache, and got the origin response.
C4_Witness ==
  \E s \in Slots :
    LET r == reqs[s]
    IN  /\ Finished(r) /\ ~BotTable[r.req]
        /\ r.req.method = "GET" /\ r.req.accept = Accept_Html
        /\ r.req.path = P_movieKnown
        /\ cacheSrc[P_movieKnown] = "rewritten"
        /\ r.out = r.origin /\ r.out # cache[P_movieKnown]

\* C5: for a bot request whose slug the seo-prerender function answers with
\* 404, the response equals the unmodified origin response.
C5_UnknownSlugPassthrough ==
  \A s \in Slots :
    LET r == reqs[s]
    IN  (/\ Finished(r)
         /\ RouteTable[r.req.path].kind = "movie"
         /\ RouteTable[r.req.path].slug \notin DOMAIN Movies
         /\ r.metaStatus = 404)
          => (r.result = "response" /\ r.out = r.origin)

\* C6: the cache lookup comes before routing, resolving and rewriting, and
\* on a hit the handler returns the cached response with no metadata call, no
\* origin fetch, no rewrite and no cache write.
C6_HitSkipsPipeline ==
  \A s \in Slots :
    LET r == reqs[s]
    IN  /\ r.pc = "match"
          => (r.nMeta = 0 /\ r.nNext = 0 /\ r.nPut = 0 /\ ~r.rewrote /\ r.seo = NullSeo)
        /\ r.hit
          => /\ Finished(r) /\ r.result = "response"
             /\ r.out = cache[r.req.path]
             /\ r.nMatch = 1
             /\ r.nMeta = 0 /\ r.nNext = 0 /\ r.nPut = 0 /\ ~r.rewrote

\* A bot was served the rewritten response stored by an earlier request.
C6_Witness ==
  \E s \in Slots :
    LET r == reqs[s]
    IN  /\ Finished(r) /\ r.hit
        /\ cacheSrc[r.req.path] = "rewritten"
        /\ r.out = cache[r.req.path]

\* The titles the seo-prerender function can give the movie of a slug: the
\* substituted title template with " - {siteName}" appended when absent.
MovieTitles(slug) ==
  {ServeTable[slug, TRUE, siteUp, seoUp].payload.title :
     siteUp \in BOOLEAN, seoUp \in BOOLEAN}

\* C7: every GET request with a crawler User-Agent for /phim/{slug}, the
\* movie being in the content store, the origin answering text/html and the
\* cache holding no entry, receives the rewritten document (the title, og:type
\* video.movie) with Cache-Control: public, max-age=300, whatever its other
\* headers are.  (Stated for a configured deployment and a request on which
\* no call failed.)
C7_CrawlerGetsRewrittenMovie ==
  \A s \in Slots :
    LET r == reqs[s]
    IN  (/\ Finished(r)
         /\ envOk /\ r.fault = "none"
         /\ r.req.method = "GET"
         /\ CrawlerTable[r.req.ua]
         /\ RouteTable[r.req.path].kind = "movie"
         /\ RouteTable[r.req.path].slug \in DOMAIN Movies
         /\ r.origin = OriginHtml200
         /\ CacheWasEmptyFor(r))
          => /\ r.result = "response"
             /\ r.out.body.title \in MovieTitles(RouteTable[r.req.path].slug)
             /\ r.out.body.ogType = S_videoMovie
             /\ HeaderGet(r.out.headers, "cache-control") = S_cacheControl

\* C8: a response the rewrite engine produced from a text/html origin
\* response has the origin's status and the origin's headers, except that
\* Cache-Control is "public, max-age=300" and Vary is "User-Agent".
C8_RewriteKeepsStatusAndHeaders ==
  \A s \in Slots :
    LET r == reqs[s]
    IN  r.rewrote
          => /\ r.out.status = r.origin.status
             /\ DOMAIN r.out.headers = DOMAIN r.origin.headers \cup {"cache-control", "vary"}
             /\ \A h \in DOMAIN r.origin.headers \ {"cache-control", "vary"} :
                  r.out.headers[h] = r.origin.headers[h]
             /\ r.out.headers["cache-control"] = S_cacheControl
             /\ r.out.headers["vary"] = S_varyUA

\* A 404 page with its own Vary header was rewritten and returned.
C8_Witness ==
  \E s \in Slots :
    LET r == reqs[s]
    IN  /\ Finished(r) /\ r.result = "response" /\ r.rewrote
        /\ r.origin = OriginHtml404
        /\ r.out.status = 404
        /\ r.out.body.title = r.seo.title

\* buildSeoResponse on every non-HTML origin response and every payload.
BuildLeavesNonHtml ==
  \A o \in OriginResponses, seo \in Payloads, p \in Paths :
    ~HtmlTable[o] => BuildTable[o, seo, p] = o

\* C9: for an origin response whose content type does not contain text/html,
\* buildSeoResponse returns it unchanged (body, status, headers; no
\* Cache-Control or Vary added), whatever the payload.
C9_NonHtmlUnchanged ==
  /\ BuildLeavesNonHtml
  /\ \A s \in Slots :
       LET r == reqs[s]
       IN  (r.seo # NullSeo /\ r.origin # NoResponse /\ ~HtmlTable[r.origin])
             => (r.out = r.origin /\ ~r.rewrote)

\* A bot asked for a page with a resolved payload, the origin answered JSON,
\* and the handler returned that answer as it was.
C9_Witness ==
  \E s \in Slots :
    LET r == reqs[s]
    IN  /\ Finished(r) /\ r.result = "response"
        /\ r.seo # NullSeo
        /\ r.origin = OriginJson200
        /\ r.out = OriginJson200
        /\ "cache-control" \notin DOMAIN r.out.headers

\* C10: when the transformation, or a later step such as storing the result,
\* throws, the handler returns the unmodified origin response, never a 5xx, a
\* partial document or an escaped exception.
C10_LateThrowFallsBack ==
  \A s \in Slots :
    LET r == reqs[s]
    IN  (Finished(r) /\ r.seo # NullSeo /\ r.fault \in {"transformThrow", "putThrow"})
          => (r.result = "response" /\ r.out = r.origin)

S_scriptOpen == <<"<", "s", "c", "r", "i", "p", "t", ">">>

\* The markup HeadInjector appends for every payload the seo-prerender
\* function can answer holds no <script> tag.
HeadInjectionEscaped ==
  \A x \in DOMAIN WorkerServeTable :
    WorkerServeTable[x].status = 200
      => ~Includes(HeadInjector(WorkerServeTable[x].payload), S_scriptOpen)

\* C11: in every HTML document an entry point returns to a bot, the title
\* and the description of the payload appear with &, ", < and > escaped, and
\* a movie name holding <script>alert(1)</script> yields no <script> tag:
\* in the markup the middleware injects, and in the page the worker builds.
C11_PayloadStringsEscaped ==
  /\ HeadInjectionEscaped
  /\ (wk.pc = "done" /\ wk.seo # NullSeo)
       => /\ ~Includes(wk.out.body, S_scriptOpen)
          /\ wk.out.body =
               workerPage([wk.seo EXCEPT !.title = escapeHtmlAttr(@),
                                         !.description = escapeHtmlAttr(@)],
                          movieMatch(wk.path), ReqOrigin \o wk.path)

\* isLikelyBot accepts every User-Agent that holds a signature of
\* BOT_UA_REGEX in some casing.
MiddlewareBotCheckIgnoresCase ==
  \A ua \in WorkerUserAgents :
    (\E sig \in BOT_UA_REGEX : Includes(Lower(ua), sig))
      => isLikelyBot([ua |-> ua, purpose |-> EmptyStr, secPurpose |-> EmptyStr])

\* C13: a User-Agent that holds a crawler signature in any casing is
\* classified as a bot at every entry point that gates on it: by isLikelyBot
\* in the middleware, and by the gate of the SEO worker for its signatures.
C13_BotCheckIgnoresCase ==
  /\ MiddlewareBotCheckIgnoresCase
  /\ (wk.pc # "idle" /\ \E sig \in WorkerSignatures : Includes(Lower(wk.ua), sig))
       => wk.gate

\* The one-segment slugs of the paths tried: not empty, no "/".
RouteSlugs == {seg \in RouteSegs : seg # EmptyStr /\ \A i \in 1..Len(seg) : seg[i] # "/"}

\* path is /phim/{slug} or /phim/{slug}/, the prefix in any letter case.
IsMoviePathOf(path, slug) ==
  \E pre \in RoutePrefixes :
    /\ Lower(pre) = S_phim
    /\ path = pre \o slug \/ path = pre \o slug \o S_slash

\* C12: routeToSeo selects exactly one route for every path: Homepage for /
\* and /index.html, MovieDetail(slug) for /phim/{one segment} with an
\* optional trailing slash (prefix in any letter case, slug in its own case),
\* Unhandled otherwise; /phim/x and /phim/x/ give the same slug.
C12_RouteTotalDeterministic ==
  (call.fn = "routeToSeo" /\ call.done)
    => LET p == call.path
           r == call.result
       IN  /\ r.kind \in {"home", "movie", "none"}
           /\ r.kind = "home" <=> p \in {S_slash, S_index}
           /\ r.kind = "movie" <=> \E slug \in RouteSlugs : IsMoviePathOf(p, slug)
           /\ \A slug \in RouteSlugs : IsMoviePathOf(p, slug) => r.slug = slug
           /\ r.kind # "movie" => r.slug = EmptyStr
           /\ (r.kind = "movie" /\ p[Len(p)] # "/")
                 => routeToSeo(p \o S_slash) = r

\* /PHIM/X/ was routed to the movie X.
C12_Witness ==
  /\ call.fn = "routeToSeo" /\ call.done
  /\ call.path = <<"/", "P", "H", "I", "M", "/", "X", "/">>
  /\ call.result = [kind |-> "movie", slug |-> <<"X">>]

\* The User-Agents with no crawler signature: none at all, or a browser's.
PlainUserAgents == {EmptyStr, UA_Browser, UA_Chrome}

\* C14 as stated: a request whose User-Agent is empty, or a browser's, is
\* classified as not a bot whatever its other headers are.
C14_PlainUaNeverBot ==
  (call.fn = "isLikelyBot" /\ call.done /\ call.req.ua \in PlainUserAgents)
    => ~call.result

\* C14 amended: a request whose User-Agent is empty, or a browser's, is
\* classified as a bot exactly when its Purpose header, or its Sec-Purpose
\* header when Purpose is empty or missing, contains "prefetch" in any
\* letter case.
C14_PlainUaBotOnlyByPrefetch ==
  (call.fn = "isLikelyBot" /\ call.done /\ call.req.ua \in PlainUserAgents)
    => LET purpose == IF call.req.purpose # EmptyStr
                      THEN call.req.purpose ELSE call.req.secPurpose
       IN  call.result <=> Includes(Lower(purpose), S_prefetch)

\* A request with no User-Agent, Purpose: x and Sec-Purpose: prefetch was
\* classified as not a bot.
C14_Witness ==
  /\ call.fn = "isLikelyBot" /\ call.done
  /\ call.req.ua = EmptyStr
  /\ call.req.purpose = <<"x">> /\ call.req.secPurpose = S_prefetch
  /\ ~call.result

\* The fourteen token names the template engine is specified to recognize.
RecognizedTokens ==
  { T_sitename, T_phim, T_phimgoc, T_theloai, T_quocgia, T_nam, T_tag, T_dienvien,
    T_daodien, T_tap, T_chatluong, T_ngonngu, T_noidung, T_thumb }

\* C15: the output of replaceSeoVariables, in the edge function and in the
\* client library, holds no %token% literal of a recognized token in any
\* letter case, for every template and every variable mapping.
C15_NoTokenLeft ==
  (call.fn = "replaceSeoVariables" /\ call.done)
    => \A tok \in RecognizedTokens : ~Includes(Lower(call.result), TokenPattern(tok))

\* truncateText of the implementation a call names.
TruncateBy(impl, text, maxLength) ==
  IF impl = "edge" THEN truncateText(text, maxLength)
  ELSE clientTruncateText(text, maxLength)

\* C16: truncateText is idempotent in both implementations: truncating a
\* result again to the same length gives that result.
C16_TruncateIdempotent ==
  (call.fn = "truncateText" /\ call.done)
    => TruncateBy(call.impl, call.result, call.maxLength) = call.result

\* The edge function cut a five-character text to four characters, the
\* ellipsis included, and cutting that again changes nothing.
C16_Witness ==
  /\ call.fn = "truncateText" /\ call.done /\ call.impl = "edge"
  /\ call.text = <<"a", "a", " ", "a", "a">>
  /\ call.maxLength = 4
  /\ call.result = <<"a", ".", ".", ".">>
  /\ truncateText(call.result, call.maxLength) = call.result

\* C17 as stated: a text of at most maxLength characters comes back unchanged,
\* and a longer one comes back as its first maxLength - 3 characters followed
\* by "...", a string of exactly maxLength characters.
C17_TruncateExact ==
  (call.fn = "truncateText" /\ call.done)
    => IF Len(call.text) <= call.maxLength
       THEN call.result = call.text
       ELSE /\ call.result = SubSeq(call.text, 1, call.maxLength - 3) \o S_ellipsis
            /\ Len(call.result) = call.maxLength

\* C17: truncateText measures and cuts the text it works on, which for the
\* edge function is the text with markup removed and white space collapsed
\* and for the client library is the text itself.  A working text of at most
\* maxLength characters is returned as it is, with no ellipsis.  A longer one
\* is cut to its first maxLength - 3 characters (none when maxLength < 3),
\* the client library trims the cut, and "..." is appended: the edge
\* function's result has exactly maxLength characters and the client's at
\* most maxLength, when maxLength is 3 or more.
C17_TruncateOfWorkingText ==
  (call.fn = "truncateText" /\ call.done)
    => LET n       == call.maxLength
           working == IF call.impl = "edge" THEN stripHtml(call.text) ELSE call.text
           kept    == IF n <= 3 THEN EmptyStr ELSE SubSeq(working, 1, n - 3)
       IN  IF Len(working) <= n
           THEN call.result = working
           ELSE /\ call.result =
                     (IF call.impl = "edge" THEN kept ELSE Trim(kept)) \o S_ellipsis
                /\ n >= 3 =>
                     IF call.impl = "edge" THEN Len(call.result) = n
                     ELSE Len(call.result) <= n

\* The edge function removed markup or white space from a text and still
\* had to cut what was left, to exactly maxLength characters.
C17_Witness ==
  /\ call.fn = "truncateText" /\ call.done /\ call.impl = "edge"
  /\ stripHtml(call.text) # call.text
  /\ Len(stripHtml(call.text)) > call.maxLength
  /\ call.maxLength >= 3
  /\ Len(call.result) = call.maxLength

\* C18 as stated: a get at the instant of a set of the same key returns the
\* value set, and a get made after more than ttl milliseconds have passed
\* since the set returns null.
C18_CacheRoundTrip ==
  (lastOp.op = "get" /\ lastOp.sets[lastOp.key].made)
    => LET s == lastOp.sets[lastOp.key]
       IN  /\ lastOp.at = s.at => lastOp.result = s.data
           /\ (s.ttl.given /\ lastOp.at > s.at + s.ttl.ms) => lastOp.result = Null

\* An absolute URL: a scheme and an authority come first.
IsAbsoluteUrl(u) ==
  \/ StartsWith(u, <<"h", "t", "t", "p", ":", "/", "/">>)
  \/ StartsWith(u, <<"h", "t", "t", "p", "s", ":", "/", "/">>)

\* C19: the canonicalUrl of every movie payload handed to the rewrite engine
\* is an absolute URL: {site_url}/phim/{slug} as set upstream, or
\* {request origin}/phim/{slug}, also when the site_url setting is absent.
C19_CanonicalAbsolute ==
  \A s \in Slots :
    LET r    == reqs[s]
        slug == RouteTable[r.req.path].slug
    IN  (r.seo # NullSeo /\ r.seo.type = S_videoMovie)
          => /\ IsAbsoluteUrl(r.seo.canonicalUrl)
             /\ r.seo.canonicalUrl \in
                  { SiteSettingsRows["site_url"] \o S_phim \o slug,
                    ReqOrigin \o S_phim \o slug }

\* The title the append rule gives a templated title and a site name.
TitleByRule(templated, siteName) ==
  [title    |-> IF Includes(templated, siteName) THEN templated
                ELSE templated \o <<" ", "-", " ">> \o siteName,
   siteName |-> siteName]

\* The titles the rule allows the movie of a slug, by what the settings
\* tables answered, and those it allows the homepage.
MovieTitleRule ==
  [slug \in DOMAIN Movies |->
     { LET site == getSiteSettings(siteUp)
           seo  == getSeoSettings(seoUp)
           n    == siteNameOf(site, seo)
       IN  TitleByRule(replaceSeoVariables(titleTemplateOf(seo),
                                           seoVariablesOf(Movies[slug], n)), n) :
       siteUp \in BOOLEAN, seoUp \in BOOLEAN }]

HomeTitleRule ==
  { LET site == fetchKvTable(siteOk, SiteSettingsRows)
        seo  == fetchKvTable(seoOk, SeoSettingsRows)
    IN  TitleByRule(Or(Get(seo, "homepage_title"), DefaultHomeTitle),
                    siteNameOf(site, seo)) :
    siteOk \in BOOLEAN, seoOk \in BOOLEAN }

\* C20: the title of every resolved payload, movie or homepage, is the
\* templated title when that holds the site name and otherwise the templated
\* title followed by " - {siteName}"; so it is not empty and holds the site
\* name.
C20_SiteNameAppendRule ==
  \A s \in Slots :
    LET r     == reqs[s]
        route == RouteTable[r.req.path]
    IN  r.seo # NullSeo
          => /\ r.seo.title # EmptyStr
             /\ Includes(r.seo.title, r.seo.siteName)
             /\ [title |-> r.seo.title, siteName |-> r.seo.siteName] \in
                  (IF route.kind = "movie" THEN MovieTitleRule[route.slug]
                   ELSE HomeTitleRule)

\* A movie payload was resolved whose templated title already named the
\* site, and nothing was appended to it.
C20_Witness ==
  \E s \in Slots :
    /\ reqs[s].seo # NullSeo
    /\ reqs[s].seo.type = S_videoMovie
    /\ reqs[s].seo.siteName = <<"A", "L">>
    /\ reqs[s].seo.title = <<"A", "b", " ", "|", " ", "A", "L">>
    /\ reqs[s].pc = "done"

S_sitenameToken == <<"%", "s", "i", "t", "e", "n", "a", "m", "e", "%">>

\* The homepage description by the fallback chain: homepage_description,
\* then site_description, then the default sentence with the site name.
HomeDescriptionByChain(seo, siteName) ==
  IF Get(seo, "homepage_description") # EmptyStr THEN Get(seo, "homepage_description")
  ELSE IF Get(seo, "site_description") # EmptyStr THEN Get(seo, "site_description")
  ELSE DefaultHomeDescPrefix \o siteName

\* C21: the homepage payload served to bots is templated: no %sitename%
\* token is left in its title or description, the title being substituted
\* before the site-name append rule is applied, and the description is the
\* first of homepage_description, site_description and the default.
C21_HomepageTemplated ==
  \A s \in Slots :
    LET r == reqs[s]
    IN  (r.seo # NullSeo /\ RouteTable[r.req.path].kind = "home")
          => /\ ~Includes(Lower(r.seo.title), S_sitenameToken)
             /\ ~Includes(Lower(r.seo.description), S_sitenameToken)
             /\ \E seoOk \in BOOLEAN :
                  r.seo.description =
                    HomeDescriptionByChain(fetchKvTable(seoOk, SeoSettingsRows),
                                           r.seo.siteName)

\* C22: a rewritten document holds at most one keywords meta tag: the head
\* injection adds one only when the origin document has none.
C22_OneKeywordsMeta ==
  \A s \in Slots :
    LET r == reqs[s]
    IN  r.rewrote
          => ~(/\ r.origin.body.keywords # Absent
               /\ Includes(r.out.body.headAppend, S_keywordsOpen))

\* C23: in a rewritten document that has a twitter:card meta tag, the content
\* of the tag is "summary_large_image" when the payload has an image and
\* "summary" otherwise.
C23_TwitterCardFollowsImage ==
  \A s \in Slots :
    LET r == reqs[s]
    IN  (r.rewrote /\ r.out.body.twCard # Absent)
          => r.out.body.twCard =
               (IF r.seo.image # EmptyStr
                THEN <<"s", "u", "m", "m", "a", "r", "y", "_", "l", "a", "r", "g", "e", "_", "i", "m", "a", "g", "e">>
                ELSE <<"s", "u", "m", "m", "a", "r", "y">>)

\* C24: the payload carries no favicon override, so the rewrite leaves the
\* href of <link rel="icon"> as the origin gave it; in particular the href is
\* never the payload's Open Graph image.
C24_IconLeftAlone ==
  \A s \in Slots :
    LET r == reqs[s]
    IN  r.rewrote
          => /\ r.out.body.icon = r.origin.body.icon
             /\ r.out.body.icon # Absent => r.out.body.icon # r.seo.image

\* C28: on every path through onRequest the origin is fetched at most once,
\* and exactly once unless the response came from the cache.
C28_OriginFetchedOnce ==
  \A s \in Slots :
    LET r == reqs[s]
    IN  /\ r.nNext <= 1
        /\ Finished(r) => (IF r.hit THEN r.nNext = 0 ELSE r.nNext = 1)

\* The extensions C27 lists.
StaticAssetExtensions ==
  { <<"j", "s">>,
    <<"c", "s", "s">>,
    <<"p", "n", "g">>,
    <<"j", "p", "g">>,
    <<"j", "p", "e", "g">>,
    <<"w", "e", "b", "p">>,
    <<"g", "i", "f">>,
    <<"s", "v", "g">>,
    <<"i", "c", "o">>,
    <<"w", "o", "f", "f">>,
    <<"w", "o", "f", "f", "2">>,
    <<"t", "t", "f">>,
    <<"e", "o", "t">>,
    <<"m", "a", "p">>,
    <<"j", "s", "o", "n">>,
    <<"t", "x", "t">>,
    <<"x", "m", "l">> }

\* The path ends in "." and one of the extensions, in any letter case.
EndsInAssetExtension(path) ==
  \E ext \in StaticAssetExtensions :
    /\ Len(path) > Len(ext)
    /\ Lower(SubSeq(path, Len(path) - Len(ext), Len(path))) = <<".">> \o ext

\* C27: a request whose path ends in a static-asset extension, in any letter
\* case, is not handled even when the path matches /phim/{slug}: the handler
\* returns the origin response and calls neither the metadata source nor the
\* cache.
C27_AssetPathUnhandled ==
  \A s \in Slots :
    LET r == reqs[s]
    IN  (r.pc # "idle" /\ EndsInAssetExtension(r.req.path))
          => /\ r.pc \in {"plainNext", "done"}
             /\ r.nMatch = 0 /\ r.nPut = 0 /\ r.nMeta = 0
             /\ r.seo = NullSeo /\ ~r.rewrote
             /\ Finished(r) =>
                  (r.result = "response" /\ r.out = r.origin /\ r.nNext = 1)

\* A crawler asked for /phim/ab.JS, which the movie route matches, and got
\* the origin's answer with no metadata call and no cache access.
C27_Witness ==
  \E s \in Slots :
    LET r == reqs[s]
    IN  /\ Finished(r) /\ r.result = "response"
        /\ r.req.path = P_movieAsset
        /\ RouteTable[r.req.path].kind = "movie"
        /\ r.req.method = "GET" /\ r.req.ua = UA_Googlebot /\ r.req.accept = Accept_Html
        /\ cacheAvail /\ envOk
        /\ r.out = r.origin /\ r.nMeta = 0 /\ r.nMatch = 0

\* C25: after every set, whatever its ttl argument (left out, zero, negative
\* or positive), the stored entry expires strictly later than the instant of
\* the insertion.
C25_ExpiryInFuture ==
  lastOp.op = "set"
    => /\ apiCache[lastOp.key].present
       /\ apiCache[lastOp.key].expiry > lastOp.at

\* C30: a step of cachedFetch that ends the call with a throw leaves the
\* cache as it was, and no step of a call that has not succeeded adds an
\* entry or touches an unexpired one: an existing unexpired entry for the URL
\* keeps its data and its expiry.
C30_FailedFetchLeavesCache ==
  [][ /\ (call'.fn = "cachedFetch" /\ call' # call /\ call'.result = "throw")
          => apiCache' = apiCache
      /\ (call'.fn = "cachedFetch" /\ call' # call /\ call'.result = "pending")
          => \A k \in CacheKeys :
               /\ ~apiCache[k].present => ~apiCache'[k].present
               /\ (apiCache[k].present /\ ~Expired(apiCache[k], clock))
                    => apiCache'[k] = apiCache[k] ]_vars

\* A forced refresh of a URL that has an unexpired entry failed, and the
\* entry is still there.
C30_Witness ==
  /\ call.fn = "cachedFetch" /\ call.pc = "done" /\ call.result = "throw"
  /\ call.forceRefresh
  /\ apiCache[call.url].present
  /\ ~Expired(apiCache[call.url], clock)
  /\ apiCache[call.url].data = "v1"

\* The tokens an implementation knows, each with the value the variables
\* give it.
TokenValuesOf(impl, variables) ==
  IF impl = "edge"
  THEN {<<TokenPattern(SeoTokens[k]), TokenValue(SeoTokens[k], variables)>> :
          k \in 1..Len(SeoTokens)}
  ELSE {<<TokenPattern(ClientSeoTokens[k][1]), clientTokenValue(k, variables)>> :
          k \in 1..Len(ClientSeoTokens)}

\* Substitution in one pass over the template, from position i on: a token
\* found in the template is replaced by its value, and the value is copied
\* without being looked at.
RECURSIVE SinglePass(_, _, _)
SinglePass(template, tokens, i) ==
  IF i > Len(template) THEN EmptyStr
  ELSE IF \E tv \in tokens : MatchAt(Lower(template), tv[1], i)
  THEN LET tv == CHOOSE x \in tokens : MatchAt(Lower(template), x[1], i)
       IN  tv[2] \o SinglePass(template, tokens, i + Len(tv[1]))
  ELSE <<template[i]>> \o SinglePass(template, tokens, i + 1)

\* C29: replaceSeoVariables substitutes in a single pass: a value inserted
\* for one token is never scanned for tokens, so the result is that of one
\* pass over the template, whatever the order of the tokens (a movie name
\* "%tap%" stays "%tap%").
C29_SinglePassSubstitution ==
  (call.fn = "replaceSeoVariables" /\ call.done /\ call.template # EmptyStr)
    => call.result =
         CollapseSpaces(SinglePass(call.template,
                                   TokenValuesOf(call.impl, call.variables), 1))

\* The response the pipeline run of a finished request produced: the
\* rewritten origin response for a resolved payload, else the origin response.
OwnResponse(r) ==
  IF r.seo # NullSeo THEN BuildTable[r.origin, r.seo, r.req.path] ELSE r.origin

\* C26: of two crawler requests for one URL handled concurrently, each
\* returns a complete response, the one its own pipeline run produced (or,
\* when its lookup found the entry the other had stored, that complete
\* response), and once both have finished the cache entry for the URL is one
\* of the two responses, never a mixture and never a partial one.
C26_ConcurrentRunsComplete ==
  (\A s \in Slots : Finished(reqs[s]))
    => /\ \A s \in Slots :
            LET r == reqs[s]
            IN  /\ r.result = "response"
                /\ IF r.hit
                   THEN \E o \in Slots \ {s} :
                          ~reqs[o].hit /\ r.out = OwnResponse(reqs[o])
                   ELSE r.origin # NoResponse /\ r.out = OwnResponse(r)
       /\ \E s \in Slots :
            cache[reqs[s].req.path] = reqs[s].out

=============================================================================
